---------------------------- MODULE Spec2Model ----------------------------
(***************************************************************************)
(* A model of js-test-tool's test-page server and coverage aggregation:    *)
(*   - CoverageData (coverage.py): the merge of JSCover line reports,      *)
(*   - SrcInstrumenter (coverage.py): port choice and JSCover start-up,    *)
(*   - SuitePageServer and its page handlers (suite_server.py): the        *)
(*     handler chain, the coverage POSTs, all_coverage_data() and the      *)
(*     byte-range responses.                                               *)
(*                                                                         *)
(* Paths are sequences of tokens, "/" being the separator, so that         *)
(* startswith('/'), [1:] and os.path.join are computed, not assumed.       *)
(* JSON null in a lineData list is the value NULL.                         *)
(***************************************************************************)
EXTENDS Integers, Sequences, FiniteSets, TLC

VARIABLES
    src_dict,        \* CoverageData._src_dict: full path -> None or line dict
    rel_path_dict,   \* CoverageData._rel_path_dict: full path -> relative path
    disk_lines,      \* the file system: full path of a readable file -> its line count
    ever_covered,    \* history: <<full path, line>> some report gave a count > 0
    last_call,       \* history: the last operation on the store, whether
                     \* its report gave a count of 0 to a line covered
                     \* before, the lineData it brought to sources that had
                     \* no data if it is the single load_from_dict so far,
                     \* and the sources any report so far brought a lineData
                     \* list
    request,         \* the HTTP request being handled
    response,        \* what the request handler sent for it
    used_ports,      \* SrcInstrumenter.used_ports (class level)
    popen_calls,     \* history: the port of every subprocess.Popen call
    instr,           \* per SrcInstrumenter: _port_num, _jscover
    cur_start,       \* the start() call in progress and its num_attempts
    isrc,            \* the instrumented_src() call in progress or last made:
                     \* its num_attempts, its HTTP GETs and how it ended
    stop_call,       \* history: the last SrcInstrumenter.stop() call and how
                     \* it ended
    server,          \* SuitePageServer: desc_dict, _jscover_path,
                     \* coverage_data, src_instr_dict and how far start() is
    suite_name_set,  \* CoverageData: the suites add_suite_name() was given
    call,            \* the all_coverage_data() call of the main thread
    posted,          \* history: the suite names of the coverage POSTs
                     \* received, ever and since start() returned
    ctor,            \* the SuitePageServer(suite_desc_list, ...) call: its
                     \* list of descriptions and how it ended
    threads,         \* request threads inside CoverageData.load_from_dict
    store0,          \* history: _src_dict when the threads began
    rt,              \* a call of util.retry: its arguments, num_attempts,
                     \* where it stands and how it ended
    rt_log           \* history: the try_func, time.sleep and recover_func
                     \* calls of that retry call, in order

cov_vars == <<src_dict, rel_path_dict, disk_lines, ever_covered, last_call>>

http_vars == <<request, response>>

instr_vars == <<used_ports, popen_calls, instr, cur_start, isrc, stop_call>>

srv_vars == <<server, suite_name_set, call, posted, ctor>>

conc_vars == <<threads, store0>>

retry_vars == <<rt, rt_log>>

vars == <<src_dict, rel_path_dict, disk_lines, ever_covered, last_call,
          request, response, used_ports, popen_calls, instr, cur_start, isrc,
          stop_call,
          server, suite_name_set, call, posted, ctor, threads, store0, rt,
          rt_log>>

-----------------------------------------------------------------------------
(* Bounds *)

\* The number of lineData values one coverage report carries, over all of
\* its sources.
MaxLines == 2

\* The size in bytes of a served resource.
MaxSize == 3

\* The number of characters of a Range header after 'bytes='.
MaxRangeLen == 4

\* The number of ports random.randint(10000, 40000) can return.
NumPorts == 11

\* The longest an all_coverage_data() call is followed, in units of
\* COVERAGE_WAIT_TIME.
MaxElapsed == 22

\* The largest max_attempts and num_attempts_before_recover a retry call is
\* given.
MaxAttempts == 3

\* The longest list of suite descriptions a server is constructed from.
MaxSuites == 3

-----------------------------------------------------------------------------
(* Values *)

\* JSON null in a lineData list (hit counts are >= 0).
NULL == -1

\* Hit counts and null, as they appear in lineData lists.
LineVals == {NULL, 0, 1}

\* Python's None as the value of a _src_dict entry, and a line dict.
NoneVal == [none |-> TRUE, lines |-> <<>>]

DictVal(d) == [none |-> FALSE, lines |-> d]

\* d[k] = v on a Python dict (insert or overwrite).
Put(d, k, v) == [x \in (DOMAIN d) \cup {k} |-> IF x = k THEN v ELSE d[x]]

\* The sequences of length at most n over S.
SeqsUpTo(S, n) == UNION {[1..k -> S] : k \in 0..n}

-----------------------------------------------------------------------------
(* Paths *)

SEP == "/"

\* The suite root directory of the store's callers.
ROOT_DIR == <<SEP, "root">>

\* Source keys of a JSCover report: "a.js", "/a.js", "b.js".
RelKeys == {<<"a.js">>, <<SEP, "a.js">>, <<"b.js">>}

\* rel_src.startswith('/') and rel_src[1:].
StripLeadingSlash(rel_src) ==
    IF Len(rel_src) > 0 /\ Head(rel_src) = SEP THEN Tail(rel_src) ELSE rel_src

\* os.path.join(a, b) for two components.
PathJoin(a, b) ==
    IF Len(b) > 0 /\ Head(b) = SEP THEN b
    ELSE IF a = <<>> \/ a[Len(a)] = SEP THEN a \o b
    ELSE a \o <<SEP>> \o b

\* The full paths the reports of this model can name.
FullPaths == {PathJoin(ROOT_DIR, StripLeadingSlash(k)) : k \in RelKeys}

-----------------------------------------------------------------------------
(* CoverageData *)

\* One source of a report: its key, whether it has a non-null 'lineData',
\* and the lineData list.
Entries(n) ==
    {[hasLineData |-> FALSE, lineData |-> <<>>]} \cup
    {[hasLineData |-> TRUE, lineData |-> l] : l \in SeqsUpTo(LineVals, n)}

Item(k, e) == [key |-> k, hasLineData |-> e.hasLineData, lineData |-> e.lineData]

\* The reports (dicts) in the order iteritems() yields their sources: any
\* order of distinct keys.
\* Reports with two sources: the same file under two keys in both orders,
\* and two files.
KeyPairs ==
    {<<<<"a.js">>, <<SEP, "a.js">>>>, <<<<SEP, "a.js">>, <<"a.js">>>>,
     <<<<"b.js">>, <<SEP, "a.js">>>>}

Reports ==
    {<<>>}
    \cup {<<Item(k, e)>> : k \in RelKeys, e \in Entries(MaxLines)}
    \cup UNION {UNION {{<<Item(kp[1], e1), Item(kp[2], e2)>> :
                          e2 \in Entries(MaxLines - Len(e1.lineData))} :
                       e1 \in Entries(MaxLines)} : kp \in KeyPairs}

\* Faulty variant: a line that was measured counts as covered
\* (line_list[num] >= 0).
CoverDictOf_measured(line_list) ==
    [num \in {n \in 0..(Len(line_list) - 1) : line_list[n + 1] # NULL}
        |-> line_list[num + 1] >= 0]

\* {num: line_list[num] > 0 for num in range(len(line_list))
\*       if line_list[num] is not None}
CoverDictOf(line_list) ==
    [num \in {n \in 0..(Len(line_list) - 1) : line_list[n + 1] # NULL}
        |-> line_list[num + 1] > 0]

\* Faulty variant: the latest report overwrites the line (existing_dict[line_num] =
\* is_covered).
MergeLines_overwrite(existing_dict, cover_dict) ==
    [n \in (DOMAIN existing_dict) \cup (DOMAIN cover_dict) |->
        IF n \in DOMAIN cover_dict THEN cover_dict[n] ELSE existing_dict[n]]

\* existing_dict[line_num] = is_covered or existing_dict.get(line_num, False)
\* for every line of cover_dict.
MergeLines(existing_dict, cover_dict) ==
    [n \in (DOMAIN existing_dict) \cup (DOMAIN cover_dict) |->
        IF n \in DOMAIN cover_dict
        THEN cover_dict[n] \/ (IF n \in DOMAIN existing_dict
                               THEN existing_dict[n] ELSE FALSE)
        ELSE existing_dict[n]]

\* Faulty variant: a source without 'lineData' is stored as if its list
\* were empty (cover_dict.get('lineData', [])).
LoadOne_empty(st, root_dir, item) ==
    LET rel_src   == StripLeadingSlash(item.key)
        full_path == PathJoin(root_dir, rel_src)
        rel       == Put(st.rel, full_path, rel_src)
        existing  == IF full_path \in DOMAIN st.src
                     THEN st.src[full_path] ELSE NoneVal
        cover     == CoverDictOf(item.lineData)
    IN  IF ~existing.none
        THEN [src |-> Put(st.src, full_path,
                          DictVal(MergeLines(existing.lines, cover))),
              rel |-> rel]
        ELSE [src |-> Put(st.src, full_path, DictVal(cover)), rel |-> rel]

\* The body of load_from_dict's loop for one source of the report.
LoadOne(st, root_dir, item) ==
    LET rel_src   == StripLeadingSlash(item.key)
        full_path == PathJoin(root_dir, rel_src)
        rel       == Put(st.rel, full_path, rel_src)
        existing  == IF full_path \in DOMAIN st.src
                     THEN st.src[full_path] ELSE NoneVal
        cover     == CoverDictOf(item.lineData)
    IN  IF ~item.hasLineData THEN [src |-> st.src, rel |-> rel]
        ELSE IF ~existing.none
        THEN [src |-> Put(st.src, full_path,
                          DictVal(MergeLines(existing.lines, cover))),
              rel |-> rel]
        ELSE [src |-> Put(st.src, full_path, DictVal(cover)), rel |-> rel]

RECURSIVE LoadItems(_, _, _)
LoadItems(st, root_dir, items) ==
    IF items = <<>> THEN st
    ELSE LoadItems(LoadOne(st, root_dir, Head(items)), root_dir, Tail(items))

\* CoverageData.load_from_dict(root_dir, cover_dict) for a dict.
load_from_dict(st, root_dir, cover_dict) == LoadItems(st, root_dir, cover_dict)

\* The values a caller may pass as cover_dict that are not a dict.
NotDicts == {"str", "list", "number", "None"}

\* Faulty variant: the relative paths are reset before the type is checked.
load_not_dict_reset(st, root_dir, cover_dict) ==
    [raised |-> "ValueError", src |-> st.src, rel |-> <<>>]

\* CoverageData.load_from_dict(root_dir, cover_dict) for a value that is not
\* a dict: isinstance fails before the store is touched.
load_not_dict(st, root_dir, cover_dict) ==
    [raised |-> "ValueError", src |-> st.src, rel |-> st.rel]

\* CoverageData.num_file_lines: 0 if the file cannot be read.
num_file_lines(file_path) ==
    IF file_path \in DOMAIN disk_lines THEN disk_lines[file_path] ELSE 0

\* CoverageData.line_dict_for_src: NoneVal for a path that is not tracked.
line_dict_for_src(full_src_path) ==
    IF full_src_path \in DOMAIN src_dict
    THEN IF src_dict[full_src_path].none
         THEN DictVal([n \in 0..(num_file_lines(full_src_path) - 1) |-> FALSE])
         ELSE src_dict[full_src_path]
    ELSE NoneVal

\* The lines a report gives a hit count > 0, by full path.
CoveredBy(root_dir, cover_dict) ==
    UNION {{<<PathJoin(root_dir, StripLeadingSlash(cover_dict[i].key)), n>> :
              n \in {m \in 0..(Len(cover_dict[i].lineData) - 1) :
                        cover_dict[i].hasLineData
                        /\ cover_dict[i].lineData[m + 1] > 0}} :
           i \in DOMAIN cover_dict}

\* The lines a report gives a hit count of 0, by full path.
ZeroedBy(root_dir, cover_dict) ==
    UNION {{<<PathJoin(root_dir, StripLeadingSlash(cover_dict[i].key)), n>> :
              n \in {m \in 0..(Len(cover_dict[i].lineData) - 1) :
                        cover_dict[i].hasLineData
                        /\ cover_dict[i].lineData[m + 1] = 0}} :
           i \in DOMAIN cover_dict}

\* The sources a report brings their first data: <<full path, lineData>>
\* for every source of the report that has a lineData list, is named once
\* in the report, and is unknown to the store src or held there as None.
FirstData(src, root_dir, cover_dict) ==
    LET full(i) == PathJoin(root_dir, StripLeadingSlash(cover_dict[i].key))
    IN  {<<full(i), cover_dict[i].lineData>> :
           i \in {j \in DOMAIN cover_dict :
                    /\ cover_dict[j].hasLineData
                    /\ \A k \in DOMAIN cover_dict : k # j => full(k) # full(j)
                    /\ (full(j) \in DOMAIN src => src[full(j)].none)}}

\* The store before any load_from_dict call. Of the last call the history
\* keeps whether its report was a dict and what it raised.
NoLoad ==
    [op |-> "init", zeroed |-> FALSE, first |-> {}, data |-> {},
     is_dict |-> TRUE, raised |-> "none"]

\* The sources a report has a lineData list for, by full path.
DataBy(root_dir, cover_dict) ==
    {PathJoin(root_dir, StripLeadingSlash(cover_dict[i].key)) :
       i \in {j \in DOMAIN cover_dict : cover_dict[j].hasLineData}}

\* CoverageData.src_list()
src_list == DOMAIN src_dict

\* The number of lines a line dict holds as covered.
LinesCovered(line_dict) == Cardinality({n \in DOMAIN line_dict : line_dict[n]})

\* CoverageData.coverage_for_src: None, ZeroDivisionError for an empty line
\* dict, or the fraction lines_covered / len(line_dict) as <<num, den>>.
coverage_for_src(full_src_path) ==
    LET line_dict == line_dict_for_src(full_src_path)
    IN  IF line_dict.none THEN [kind |-> "none", num |-> 0, den |-> 0]
        ELSE IF DOMAIN line_dict.lines = {}
        THEN [kind |-> "ZeroDivisionError", num |-> 0, den |-> 0]
        ELSE [kind |-> "fraction", num |-> LinesCovered(line_dict.lines),
              den |-> Cardinality(DOMAIN line_dict.lines)]

\* The loop of total_coverage over the sources still to be visited:
\* <<lines_covered, lines_measured>>.
RECURSIVE SumLines(_)
SumLines(src_paths) ==
    IF src_paths = {} THEN <<0, 0>>
    ELSE LET src_path == CHOOSE p \in src_paths : TRUE
             line_dict == line_dict_for_src(src_path).lines
             rest == SumLines(src_paths \ {src_path})
         IN  <<rest[1] + LinesCovered(line_dict),
               rest[2] + Cardinality(DOMAIN line_dict)>>

\* Faulty variant: None as soon as no line is covered.
total_coverage_covered ==
    LET sums == SumLines(src_list)
    IN  IF sums[1] > 0
        THEN [kind |-> "fraction", num |-> sums[1], den |-> sums[2]]
        ELSE [kind |-> "none", num |-> 0, den |-> 0]

\* CoverageData.total_coverage: None, or the fraction
\* lines_covered / lines_measured as num and den.
total_coverage ==
    LET sums == SumLines(src_list)
    IN  IF sums[2] > 0
        THEN [kind |-> "fraction", num |-> sums[1], den |-> sums[2]]
        ELSE [kind |-> "none", num |-> 0, den |-> 0]

-----------------------------------------------------------------------------
(* HTTP responses and byte ranges (SuitePageRequestHandler) *)

\* A handler's content: None, or a file-like object (a file opened by the
\* dependency handler, or a StringIO) holding bytes.
NoContent == [none |-> TRUE, is_file |-> FALSE, data |-> <<>>]

FileContent(bytes) == [none |-> FALSE, is_file |-> TRUE, data |-> bytes]

StringIO(bytes) == [none |-> FALSE, is_file |-> FALSE, data |-> bytes]

\* The Range header: absent, or a string. A string is a sequence of
\* characters; the literal 'bytes=' is one token, "x" is any character that
\* is not a digit, a sign, a blank, '-' or ','.
NoHeader == [present |-> FALSE, value |-> <<>>]

Header(v) == [present |-> TRUE, value |-> v]

BYTES_EQ == "bytes="

Digits == {"0", "1"}

RangeChars == Digits \cup {"-", ",", "x"}

RangeStrs == SeqsUpTo(RangeChars, MaxRangeLen)

\* The headers of the model: none, short strings of any kind (the empty
\* string, 'bytes=' alone, strings without the 'bytes=' prefix), and
\* 'bytes=' followed by any range string.
Headers ==
    {NoHeader}
    \cup {Header(v) : v \in SeqsUpTo(RangeChars \cup {BYTES_EQ}, MaxRangeLen - 1)}
    \cup {Header(<<BYTES_EQ>> \o r) : r \in RangeStrs}

\* The byte range a request asks for: None, a (start_pos, end_pos) tuple,
\* or RequestRangeError raised.
NoRange == [kind |-> "none", start_pos |-> 0, end_pos |-> 0]

RangeErr == [kind |-> "error", start_pos |-> 0, end_pos |-> 0]

Range(a, b) == [kind |-> "range", start_pos |-> a, end_pos |-> b]

\* str.split(sep)
RECURSIVE Split(_, _)
Split(str, sep) ==
    IF \A i \in 1..Len(str) : str[i] # sep THEN <<str>>
    ELSE LET i == CHOOSE j \in 1..Len(str) :
                      str[j] = sep /\ \A k \in 1..(j - 1) : str[k] # sep
         IN  <<SubSeq(str, 1, i - 1)>> \o Split(SubSeq(str, i + 1, Len(str)), sep)

\* Whether int(str) succeeds: ValueError otherwise.
IsInt(str) == Len(str) > 0 /\ \A i \in 1..Len(str) : str[i] \in Digits

DigitVal(c) == IF c = "0" THEN 0 ELSE 1

\* int(str)
RECURSIVE IntOf(_)
IntOf(str) ==
    IF str = <<>> THEN 0
    ELSE 10 * IntOf(SubSeq(str, 1, Len(str) - 1)) + DigitVal(str[Len(str)])

Min(a, b) == IF a < b THEN a ELSE b

Max(a, b) == IF a > b THEN a ELSE b

\* SuitePageRequestHandler._file_size
file_size_of(content_file) == Len(content_file.data)

\* Faulty variant: the end of a START-END range is not cut to the file size.
parse_byte_range_unclipped(range_str, file_size) ==
    LET parts == Split(range_str, "-")
    IN  IF Len(parts) # 2 THEN NoRange
        ELSE IF parts[1] # <<>> /\ ~IsInt(parts[1]) THEN NoRange
        ELSE IF parts[2] # <<>> /\ ~IsInt(parts[2]) THEN NoRange
        ELSE IF parts[1] # <<>> /\ parts[2] # <<>>
        THEN IF IntOf(parts[1]) > IntOf(parts[2]) THEN RangeErr
             ELSE Range(IntOf(parts[1]), IntOf(parts[2]))
        ELSE IF parts[1] # <<>> /\ parts[2] = <<>>
        THEN Range(IntOf(parts[1]), file_size - 1)
        ELSE IF parts[1] = <<>> /\ parts[2] # <<>>
        THEN Range(file_size - IntOf(parts[2]), file_size - 1)
        ELSE NoRange

\* Faulty variant: start > end is not checked.
parse_byte_range_unchecked(range_str, file_size) ==
    LET parts == Split(range_str, "-")
    IN  IF Len(parts) # 2 THEN NoRange
        ELSE IF parts[1] # <<>> /\ ~IsInt(parts[1]) THEN NoRange
        ELSE IF parts[2] # <<>> /\ ~IsInt(parts[2]) THEN NoRange
        ELSE IF parts[1] # <<>> /\ parts[2] # <<>>
        THEN Range(IntOf(parts[1]), Min(IntOf(parts[2]), file_size - 1))
        ELSE IF parts[1] # <<>> /\ parts[2] = <<>>
        THEN Range(IntOf(parts[1]), file_size - 1)
        ELSE IF parts[1] = <<>> /\ parts[2] # <<>>
        THEN Range(file_size - IntOf(parts[2]), file_size - 1)
        ELSE NoRange

\* SuitePageRequestHandler._parse_byte_range
parse_byte_range(range_str, file_size) ==
    LET parts == Split(range_str, "-")
    IN  IF Len(parts) # 2 THEN NoRange
        ELSE IF parts[1] # <<>> /\ ~IsInt(parts[1]) THEN NoRange
        ELSE IF parts[2] # <<>> /\ ~IsInt(parts[2]) THEN NoRange
        ELSE IF parts[1] # <<>> /\ parts[2] # <<>>
        THEN IF IntOf(parts[1]) > IntOf(parts[2]) THEN RangeErr
             ELSE Range(IntOf(parts[1]), Min(IntOf(parts[2]), file_size - 1))
        ELSE IF parts[1] # <<>> /\ parts[2] = <<>>
        THEN Range(IntOf(parts[1]), file_size - 1)
        ELSE IF parts[1] = <<>> /\ parts[2] # <<>>
        THEN Range(file_size - IntOf(parts[2]), file_size - 1)
        ELSE NoRange

\* Faulty variant: of several ranges the first one is served.
requested_byte_range_first(range_header, content_file) ==
    IF ~range_header.present \/ range_header.value = <<>> THEN NoRange
    ELSE IF Head(range_header.value) = BYTES_EQ
    THEN LET range_str_list == Split(Tail(range_header.value), ",")
         IN  parse_byte_range(range_str_list[1], file_size_of(content_file))
    ELSE NoRange

\* SuitePageRequestHandler._requested_byte_range
requested_byte_range(range_header, content_file) ==
    IF ~range_header.present \/ range_header.value = <<>> THEN NoRange
    ELSE IF Head(range_header.value) = BYTES_EQ
    THEN LET range_str_list == Split(Tail(range_header.value), ",")
         IN  IF Len(range_str_list) > 1 THEN NoRange
             ELSE parse_byte_range(range_str_list[1], file_size_of(content_file))
    ELSE NoRange

\* shutil.copyfileobj(fsrc, fdst, length) with fsrc at position pos: read
\* `length` bytes at a time and write them until a read returns nothing
\* (read(0) returns nothing at once; a negative length reads to the end).
copyfileobj(data, pos, length) ==
    IF length = 0 THEN <<>> ELSE SubSeq(data, pos + 1, Len(data))

\* What _send_response sends: the status line, the Content-Range and
\* Content-Length headers, the body written to wfile, and whether it raised
\* (seek() to a negative offset raises IOError on a file; a StringIO seeks
\* to max(0, pos)).
NoResponse ==
    [status |-> 0, has_range |-> FALSE, range |-> <<0, 0, 0>>,
     content_length |-> 0, body |-> <<>>, raised |-> FALSE]

\* SuitePageRequestHandler._send_response
send_response(status_code, content, byte_range) ==
    IF byte_range.kind = "range"
    THEN LET start_pos == byte_range.start_pos
             end_pos   == byte_range.end_pos
             copy_len  == end_pos - start_pos
         IN  [status |-> status_code, has_range |-> TRUE,
              range |-> <<start_pos, end_pos, file_size_of(content)>>,
              content_length |-> end_pos - start_pos + 1,
              body |-> IF content.none \/ (content.is_file /\ start_pos < 0)
                       THEN <<>>
                       ELSE copyfileobj(content.data, Max(0, start_pos), copy_len),
              raised |-> ~content.none /\ content.is_file /\ start_pos < 0]
    ELSE [status |-> status_code, has_range |-> FALSE, range |-> <<0, 0, 0>>,
          content_length |-> IF content.none THEN 0 ELSE file_size_of(content),
          body |-> IF content.none THEN <<>> ELSE content.data,
          raised |-> FALSE]

\* SuitePageRequestHandler._handle_request, once a page handler has returned
\* content that is not None.
respond(content, range_header) ==
    LET byte_range == requested_byte_range(range_header, content)
    IN  IF byte_range.kind = "error" THEN send_response(406, NoContent, NoRange)
        ELSE IF byte_range.kind = "none" THEN send_response(200, content, NoRange)
        ELSE send_response(206, content, byte_range)

\* The bytes of a resource of size n: byte i has the value i.
Resource(n) == [i \in 1..n |-> i - 1]

-----------------------------------------------------------------------------
(* Suite descriptions, the file system and the page handlers *)

SuiteNames == {"s1", "s2"}

\* A suite name no description has.
UNKNOWN_SUITE == "zz"

\* SuiteDescription of a registered suite: suite s1 has the source a.js,
\* suite s2 the source b.js, both have the library lib.js, the spec spec.js
\* and the fixture fix.html.
Desc(suite_name) ==
    [root_dir |-> ROOT_DIR,
     prepend_path |-> <<"pre">>,
     src_paths |-> IF suite_name = "s1" THEN {<<"a.js">>} ELSE {<<"b.js">>},
     lib_paths |-> {<<"lib.js">>},
     spec_paths |-> {<<"spec.js">>},
     fixture_paths |-> {<<"fix.html">>}]

\* all_paths of DependencyPageHandler._dependency_path
all_paths(suite_desc) ==
    suite_desc.lib_paths \cup suite_desc.src_paths
        \cup suite_desc.spec_paths \cup suite_desc.fixture_paths

\* The bytes of a file of n lines: each line is 'a\n'.
RECURSIVE FileBytes(_)
FileBytes(n) == IF n = 0 THEN <<>> ELSE <<97, 10>> \o FileBytes(n - 1)

\* What JSCover returns for a source: not the raw bytes.
InstrumentedBytes(n) == <<105>> \o FileBytes(n)

\* str(None)
NONE_STR == <<78, 111, 110, 101>>

\* 'Success: coverage data received'
SUCCESS_MSG == <<83, 117, 99, 99, 101, 115, 115, 58, 32, 99, 111, 118, 101, 114, 97, 103, 101, 32, 100, 97, 116, 97, 32, 114, 101, 99, 101, 105, 118, 101, 100>>

\* The page SuiteRenderer.render_to_string returns.
SUITE_PAGE == <<60, 104, 62>>

\* BasePageHandler.safe_str_buffer(content): StringIO(None) holds str(None).
safe_str_buffer(content) ==
    IF content.none THEN StringIO(NONE_STR) ELSE StringIO(content.data)

\* A request path is a sequence of tokens: "/", "?" and words.
QM == "?"

IsWord(t) == t # SEP /\ t # QM

\* The longest prefix of toks without "?" ([^?]+ followed by .*).
RECURSIVE UpToQM(_)
UpToQM(toks) ==
    IF toks = <<>> \/ Head(toks) = QM THEN <<>>
    ELSE <<Head(toks)>> \o UpToQM(Tail(toks))

NoMatch == [matched |-> FALSE, suite_name |-> "", rel_path |-> <<>>]

Match(suite_name, rel_path) ==
    [matched |-> TRUE, suite_name |-> suite_name, rel_path |-> rel_path]

Rest(path, n) == SubSeq(path, n, Len(path))

\* SuitePageHandler.PATH_REGEX: ^/suite/([^?/]+)/?(\?.*)?$
match_suite(path) ==
    IF /\ Len(path) >= 4
       /\ SubSeq(path, 1, 3) = <<SEP, "suite", SEP>>
       /\ IsWord(path[4])
       /\ LET rest == Rest(path, 5)
              tail == IF rest # <<>> /\ Head(rest) = SEP THEN Tail(rest) ELSE rest
          IN  tail = <<>> \/ Head(tail) = QM
    THEN Match(path[4], <<>>)
    ELSE NoMatch

\* RunnerPageHandler.PATH_REGEX: ^/runner/([^\?]+).*$
match_runner(path) ==
    IF /\ Len(path) >= 4
       /\ SubSeq(path, 1, 3) = <<SEP, "runner", SEP>>
       /\ UpToQM(Rest(path, 4)) # <<>>
    THEN Match("", UpToQM(Rest(path, 4)))
    ELSE NoMatch

\* DependencyPageHandler.PATH_REGEX and InstrumentedSrcPageHandler.PATH_REGEX:
\* ^/suite/([^/]+)/include/([^?]+).*$
match_include(path) ==
    IF /\ Len(path) >= 8
       /\ SubSeq(path, 1, 3) = <<SEP, "suite", SEP>>
       /\ path[4] # SEP
       /\ SubSeq(path, 5, 7) = <<SEP, "include", SEP>>
       /\ UpToQM(Rest(path, 8)) # <<>>
    THEN Match(path[4], UpToQM(Rest(path, 8)))
    ELSE NoMatch

\* StoreCoveragePageHandler.PATH_REGEX: ^/jscoverage-store/([^/]+)/?$
match_store(path) ==
    IF /\ Len(path) >= 4
       /\ SubSeq(path, 1, 3) = <<SEP, "jscoverage-store", SEP>>
       /\ path[4] # SEP
       /\ Rest(path, 5) \in {<<>>, <<SEP>>}
    THEN Match(path[4], <<>>)
    ELSE NoMatch

\* The content of a request: not JSON, JSON that is not a dict, a report,
\* or a JSON dict in which the sources of a report are followed (in the
\* order of iteritems) by a source whose value has not the shape
\* {"lineData": [null|int, ...]}.
NotJson == [json |-> FALSE, is_dict |-> FALSE, cover_dict |-> <<>>,
            bad |-> "none", bad_key |-> <<>>]

JsonList == [json |-> TRUE, is_dict |-> FALSE, cover_dict |-> <<>>,
             bad |-> "none", bad_key |-> <<>>]

JsonDict(cover_dict) == [json |-> TRUE, is_dict |-> TRUE, cover_dict |-> cover_dict,
                         bad |-> "none", bad_key |-> <<>>]

\* The shapes a value of the JSON dict may have instead: a number in place
\* of the dict, {"lineData": number} and {"lineData": ["x"]}.
BadShapes == {"entry not a dict", "lineData not a list", "lineData of strings"}

JsonBadShape(cover_dict, bad_key, bad) ==
    [JsonDict(cover_dict) EXCEPT !.bad = bad, !.bad_key = bad_key]

\* A request: its method, path, Range header and content, and whether
\* SrcInstrumenter.instrumented_src returns (or raises SrcInstrumenterError)
\* and SuiteRenderer.render_to_string returns (or raises SuiteRendererError)
\* while it is handled; whether it has been answered, by which page handler
\* with which page content, the page handlers that were invoked for it, the
\* exception that left the request handler, and the instrumented_src calls
\* made for it.
Request(method, path, range_header, content) ==
    [handled |-> FALSE, method |-> method, path |-> path,
     range_header |-> range_header, content |-> content, instr_ok |-> TRUE,
     render_ok |-> TRUE,
     handler |-> "none", page |-> NoContent, invoked |-> <<>>,
     raised |-> "none", instr_calls |-> {}]

NoRequest == [Request("GET", <<>>, NoHeader, NotJson) EXCEPT !.handled = TRUE]

\* What a page handler returns, or raises, and leaves in the coverage store.
Loaded(content, cdata) ==
    [content |-> content, cdata |-> cdata, raised |-> "none", instr_calls |-> {}]

Raising(ex, cdata) ==
    [content |-> NoContent, cdata |-> cdata, raised |-> ex, instr_calls |-> {}]

\* SuitePageHandler.load_page: None for a suite without description, else
\* the page render_to_string returns; a SuiteRendererError it raises leaves
\* load_page.
suite_load_page(desc_dict, cdata, suite_name, render_ok) ==
    IF suite_name \notin desc_dict THEN Loaded(NoContent, cdata)
    ELSE IF ~render_ok THEN Raising("SuiteRendererError", cdata)
    ELSE Loaded(safe_str_buffer(StringIO(SUITE_PAGE)), cdata)

\* RunnerPageHandler.load_page: the package has the resource runner/r.js.
runner_load_page(rel_path) ==
    IF rel_path = <<"r.js">> THEN safe_str_buffer(StringIO(FileBytes(1)))
    ELSE NoContent

\* DependencyPageHandler._dependency_path and load_page
dependency_load_page(desc_dict, disk, suite_name, rel_path) ==
    IF suite_name \notin desc_dict THEN NoContent
    ELSE LET desc == Desc(suite_name)
             full_path == PathJoin(desc.root_dir, rel_path)
         IN  IF rel_path \notin all_paths(desc) THEN NoContent
             ELSE IF full_path \notin DOMAIN disk THEN NoContent
             ELSE FileContent(FileBytes(disk[full_path]))

\* InstrumentedSrcPageHandler._send_instrumented_src: None without an
\* instrumenter or when instrumented_src raises SrcInstrumenterError.
send_instrumented_src(instr_dict, disk, suite_name, rel_path, instr_ok) ==
    LET full_path == PathJoin(Desc(suite_name).root_dir, rel_path)
    IN  IF suite_name \notin instr_dict THEN NoContent
        ELSE IF ~instr_ok \/ full_path \notin DOMAIN disk THEN NoContent
        ELSE StringIO(InstrumentedBytes(disk[full_path]))

\* Faulty variant: every listed dependency counts as a source file.
is_src_file_listed(desc_dict, suite_name, rel_path) ==
    suite_name \in desc_dict /\ rel_path \in all_paths(Desc(suite_name))

\* InstrumentedSrcPageHandler._is_src_file
is_src_file(desc_dict, suite_name, rel_path) ==
    suite_name \in desc_dict /\ rel_path \in Desc(suite_name).src_paths

\* The calls of SrcInstrumenter.instrumented_src that load_page makes: one,
\* for a source file of a suite that has an instrumenter.
instrumented_src_calls(desc_dict, instr_dict, suite_name, rel_path) ==
    IF is_src_file(desc_dict, suite_name, rel_path) /\ suite_name \in instr_dict
    THEN {<<suite_name, rel_path>>} ELSE {}

\* InstrumentedSrcPageHandler.load_page
instr_load_page(desc_dict, instr_dict, disk, suite_name, rel_path, instr_ok) ==
    IF is_src_file(desc_dict, suite_name, rel_path)
    THEN safe_str_buffer(send_instrumented_src(instr_dict, disk, suite_name,
                                               rel_path, instr_ok))
    ELSE NoContent

\* Faulty variant: only the suite reported last is remembered.
add_suite_name_last(cdata, suite_name) ==
    [cdata EXCEPT !.names = {suite_name}]

\* CoverageData.add_suite_name
add_suite_name(cdata, suite_name) ==
    [cdata EXCEPT !.names = @ \cup {suite_name}]

\* CoverageData.suite_name_list
suite_name_list(names) == names

\* CoverageData.add_expected_src(root_dir, rel_path): a source not yet known
\* is recorded without data.
add_expected_src(src, root_dir, rel_path) ==
    LET full_path == PathJoin(root_dir, rel_path)
    IN  IF full_path \in DOMAIN src THEN src ELSE Put(src, full_path, NoneVal)

\* CoverageData.load_from_dict(root_dir, prepend_path, cover_dict): the merge
\* of load_from_dict, the sources being reported under prepend_path.
load_from_dict_prefixed(st, root_dir, prepend_path, cover_dict) ==
    LET r == load_from_dict(st, root_dir, cover_dict)
        reported == {PathJoin(root_dir, StripLeadingSlash(cover_dict[i].key)) :
                        i \in DOMAIN cover_dict}
    IN  [src |-> r.src,
         rel |-> [p \in DOMAIN r.rel |->
                    IF p \in reported THEN PathJoin(prepend_path, r.rel[p])
                    ELSE r.rel[p]]]

\* The body of load_from_dict's loop for a source whose value has not the
\* shape of a report: the relative path is stored; then cover_dict.get
\* raises AttributeError on a value that is not a dict, len(line_list)
\* raises TypeError on a number, and a string compares greater than 0, so
\* that its line is stored as covered.
load_bad_entry(st, root_dir, prepend_path, bad_key, bad) ==
    LET rel_src   == StripLeadingSlash(bad_key)
        full_path == PathJoin(root_dir, rel_src)
        rel       == Put(st.rel, full_path, PathJoin(prepend_path, rel_src))
        loaded    == load_from_dict_prefixed(
                         st, root_dir, prepend_path,
                         <<Item(bad_key, [hasLineData |-> TRUE, lineData |-> <<1>>])>>)
    IN  IF bad = "entry not a dict"
        THEN [raised |-> "AttributeError", src |-> st.src, rel |-> rel]
        ELSE IF bad = "lineData not a list"
        THEN [raised |-> "TypeError", src |-> st.src, rel |-> rel]
        ELSE [raised |-> "none", src |-> loaded.src, rel |-> loaded.rel]

\* StoreCoveragePageHandler._store_coverage_data: only ValueError is caught.
store_coverage_data(desc_dict, cdata, suite_name, request_content) ==
    LET marked == add_suite_name(cdata, suite_name)
    IN  IF suite_name \notin desc_dict THEN Loaded(NoContent, marked)
        ELSE IF ~request_content.json \/ ~request_content.is_dict
        THEN Loaded(NoContent, marked)
        ELSE LET st == load_from_dict_prefixed(
                           [src |-> marked.src, rel |-> marked.rel],
                           Desc(suite_name).root_dir,
                           Desc(suite_name).prepend_path,
                           request_content.cover_dict)
                 last == IF request_content.bad = "none"
                         THEN [raised |-> "none", src |-> st.src, rel |-> st.rel]
                         ELSE load_bad_entry(st, Desc(suite_name).root_dir,
                                             Desc(suite_name).prepend_path,
                                             request_content.bad_key,
                                             request_content.bad)
                 left == [names |-> marked.names, src |-> last.src,
                          rel |-> last.rel]
             IN  IF last.raised # "none" THEN Raising(last.raised, left)
                 ELSE Loaded(StringIO(SUCCESS_MSG), left)

\* Faulty variant: the coverage handlers are registered whether or not the
\* server has instrumenters.
page_handlers_always(srv) ==
    <<"SuitePageHandler", "RunnerPageHandler", "InstrumentedSrcPageHandler",
      "StoreCoveragePageHandler", "DependencyPageHandler">>

\* SuitePageRequestHandler.__init__: the page handlers in order.
page_handlers(srv) ==
    <<"SuitePageHandler", "RunnerPageHandler">>
    \o (IF Cardinality(srv.src_instr_dict) > 0
        THEN <<"InstrumentedSrcPageHandler", "StoreCoveragePageHandler">>
        ELSE <<>>)
    \o <<"DependencyPageHandler">>

\* BasePageHandler.HTTP_METHODS
http_methods(handler) ==
    IF handler = "StoreCoveragePageHandler" THEN {"POST"} ELSE {"GET"}

\* BasePageHandler.page_contents for each handler class.
page_contents(handler, srv, disk, cdata, req, instr_ok) ==
    IF req.method \notin http_methods(handler) THEN Loaded(NoContent, cdata)
    ELSE IF handler = "SuitePageHandler"
    THEN LET result == match_suite(req.path)
         IN  IF ~result.matched THEN Loaded(NoContent, cdata)
             ELSE suite_load_page(srv.desc_dict, cdata, result.suite_name,
                                  req.render_ok)
    ELSE IF handler = "RunnerPageHandler"
    THEN LET result == match_runner(req.path)
         IN  IF ~result.matched THEN Loaded(NoContent, cdata)
             ELSE Loaded(runner_load_page(result.rel_path), cdata)
    ELSE IF handler = "InstrumentedSrcPageHandler"
    THEN LET result == match_include(req.path)
         IN  IF ~result.matched THEN Loaded(NoContent, cdata)
             ELSE [Loaded(instr_load_page(srv.desc_dict, srv.src_instr_dict, disk,
                                          result.suite_name, result.rel_path,
                                          instr_ok), cdata)
                   EXCEPT !.instr_calls =
                       instrumented_src_calls(srv.desc_dict, srv.src_instr_dict,
                                              result.suite_name, result.rel_path)]
    ELSE IF handler = "StoreCoveragePageHandler"
    THEN LET result == match_store(req.path)
         IN  IF ~result.matched THEN Loaded(NoContent, cdata)
             ELSE store_coverage_data(srv.desc_dict, cdata, result.suite_name,
                                      req.content)
    ELSE LET result == match_include(req.path)
         IN  IF ~result.matched THEN Loaded(NoContent, cdata)
             ELSE Loaded(dependency_load_page(srv.desc_dict, disk,
                                              result.suite_name, result.rel_path),
                         cdata)

\* SuitePageRequestHandler._handle_request: the first handler that returns
\* content answers; 404 when none does. The result is the response, the
\* handler that answered, its content, the coverage store the handlers
\* leave and the handlers whose page_contents was called. An exception of
\* a handler leaves _handle_request before any response is sent.
RECURSIVE handle_from(_, _, _, _, _)
handle_from(handlers, srv, disk, cdata, req) ==
    IF handlers = <<>>
    THEN [response |-> send_response(404, NoContent, NoRange),
          handler |-> "none", page |-> NoContent, cdata |-> cdata,
          invoked |-> <<>>, raised |-> "none", instr_calls |-> {}]
    ELSE LET loaded == page_contents(Head(handlers), srv, disk, cdata, req,
                                     req.instr_ok)
             rest == handle_from(Tail(handlers), srv, disk, loaded.cdata, req)
         IN  IF loaded.raised # "none"
             THEN [response |-> NoResponse, handler |-> Head(handlers),
                   page |-> NoContent, cdata |-> loaded.cdata,
                   invoked |-> <<Head(handlers)>>, raised |-> loaded.raised,
                   instr_calls |-> loaded.instr_calls]
             ELSE IF ~loaded.content.none
             THEN [response |-> respond(loaded.content, req.range_header),
                   handler |-> Head(handlers), page |-> loaded.content,
                   cdata |-> loaded.cdata, invoked |-> <<Head(handlers)>>,
                   raised |-> "none", instr_calls |-> loaded.instr_calls]
             ELSE [rest EXCEPT !.invoked = <<Head(handlers)>> \o @,
                               !.instr_calls = loaded.instr_calls \cup @]

handle_request(srv, disk, cdata, req) ==
    handle_from(page_handlers(srv), srv, disk, cdata, req)

-----------------------------------------------------------------------------
(* SuitePageServer: start(), stop(), the coverage POSTs and                 *)
(* all_coverage_data(). Time is counted in units of COVERAGE_WAIT_TIME.     *)

COVERAGE_TIMEOUT == 20

COVERAGE_WAIT_TIME == 1

NoCall ==
    [pc |-> "idle", elapsed |-> 0, result |-> "none",
     seen_equal |-> FALSE, complete_at_call |-> FALSE]

NonePosted == [ever |-> {}, started |-> {}]

\* starts counts the instr.start() calls start() made for each suite, and
\* stops holds the suites on whose instrumenter stop() called instr.stop().
NewServer(desc_dict, jscover_path) ==
    [desc_dict |-> desc_dict, jscover_path |-> jscover_path, state |-> "init",
     coverage_data |-> FALSE, src_instr_dict |-> {},
     starts |-> [suite_name \in desc_dict |-> 0], stops |-> {}]

\* A constructor call that has not been made.
NoCtor == [suite_desc_list |-> <<>>, jscover_path |-> FALSE, result |-> "none",
           desc_dict |-> <<>>]

ServerIdle ==
    /\ server = NewServer({}, FALSE)
    /\ suite_name_set = {}
    /\ call = NoCall
    /\ posted = NonePosted
    /\ ctor = NoCtor

\* Faulty variant: coverage is complete once every reported suite is registered.
has_all_coverage_subset(srv, names) ==
    suite_name_list(names) \subseteq srv.desc_dict

\* SuitePageServer._has_all_coverage:
\* sorted(suite_name_list) == sorted(self.desc_dict.keys())
has_all_coverage(srv, names) == suite_name_list(names) = srv.desc_dict

\* SuitePageServer.start() up to the loop over the suites: the server thread
\* runs, and with a JSCover path a new CoverageData is created.
ServerStart ==
    /\ server.state = "init"
    /\ IF server.jscover_path
       THEN /\ server' = [server EXCEPT
                            !.coverage_data = TRUE,
                            !.state = IF server.desc_dict = {}
                                      THEN "started" ELSE "starting"]
            /\ src_dict' = <<>>
            /\ rel_path_dict' = <<>>
            /\ suite_name_set' = {}
       ELSE /\ server' = [server EXCEPT !.state = "started", !.src_instr_dict = {}]
            /\ UNCHANGED <<src_dict, rel_path_dict, suite_name_set>>
    /\ UNCHANGED <<disk_lines, ever_covered, last_call, http_vars, instr_vars,
                   conc_vars, retry_vars, call, posted, ctor>>

\* Faulty variant: the sources of a suite are not registered as expected.
AddExpected_skip(src, root_dir, rel_paths) == src

\* for rel_path in desc.src_paths():
\*     self.coverage_data.add_expected_src(desc.root_dir(), rel_path)
RECURSIVE AddExpected(_, _, _)
AddExpected(src, root_dir, rel_paths) ==
    IF rel_paths = {} THEN src
    ELSE LET rel_path == CHOOSE r \in rel_paths : TRUE
         IN  AddExpected(add_expected_src(src, root_dir, rel_path), root_dir,
                         rel_paths \ {rel_path})

\* One round of the loop of start(): the sources of the suite are expected,
\* and its instrumenter starts (start() goes on) or raises (start() ends
\* with the exception).
StartSuite(suite_name, started) ==
    /\ server.state = "starting"
    /\ suite_name \in server.desc_dict \ server.src_instr_dict
    /\ src_dict' = AddExpected(src_dict, Desc(suite_name).root_dir,
                               Desc(suite_name).src_paths)
    /\ server' =
         IF started
         THEN [server EXCEPT
                 !.src_instr_dict = @ \cup {suite_name},
                 !.starts[suite_name] = @ + 1,
                 !.state = IF server.src_instr_dict \cup {suite_name}
                                = server.desc_dict
                           THEN "started" ELSE "starting"]
         ELSE [server EXCEPT !.state = "start_failed",
                             !.starts[suite_name] = @ + 1]
    /\ UNCHANGED <<rel_path_dict, disk_lines, ever_covered, last_call, http_vars,
                   instr_vars, conc_vars, retry_vars, ctor,
                   suite_name_set, call, posted>>

\* How self._jscover.terminate() can end: it signals a running subprocess;
\* on a subprocess that is gone the signal is delivered to what is left of
\* it, or os.kill finds no such process and OSError is raised (which of
\* the two depends on whether the dead child was reaped, and on the
\* platform).
terminate_outcomes(jscover) ==
    IF jscover = "running" THEN {"returns"} ELSE {"returns", "OSError"}

\* How SuitePageServer.stop() can end: instr.stop() is called on each value
\* of src_instr_dict, in the order of the dict, then shutdown() and
\* socket.close(). instr.stop() ends as terminate() does: on an instrumenter
\* whose JSCover subprocess has died it can raise OSError, which ends stop()
\* before shutdown() ("stop_failed": the accept loop runs and the socket
\* stays open) after the instrumenters of the suites in before were stopped.
stop_outcomes(srv) ==
    {[state |-> "stopped", stops |-> srv.src_instr_dict]}
    \cup UNION {{[state |-> "stop_failed", stops |-> before \cup {f}] :
                   before \in SUBSET (srv.src_instr_dict \ {f})} :
                f \in {n \in srv.src_instr_dict :
                         "OSError" \in terminate_outcomes("exited")}}

\* SuitePageServer.stop()
ServerStop ==
    /\ server.state \in {"started", "start_failed"}
    /\ \E out \in stop_outcomes(server) :
          server' = [server EXCEPT !.state = out.state, !.stops = out.stops]
    /\ UNCHANGED <<cov_vars, http_vars, instr_vars, conc_vars, retry_vars, ctor,
                   suite_name_set, call, posted>>

\* The request a client makes to store a coverage report.
StoreRequest(suite_name, content) ==
    Request("POST", <<SEP, "jscoverage-store", SEP, suite_name>>, NoHeader, content)

\* The contents the clients of this model POST: text that is not JSON, a
\* JSON list, and a report of one covered line of a.js.
Contents ==
    {NotJson, JsonList,
     JsonDict(<<Item(<<"a.js">>, [hasLineData |-> TRUE, lineData |-> <<1>>])>>)}

\* The malformed contents of this model: a value of the wrong shape for
\* a.js, alone, and a number for b.js after a report for a.js.
BadContents ==
    {JsonBadShape(<<>>, <<"a.js">>, bad) : bad \in BadShapes}
    \cup {JsonBadShape(<<Item(<<"a.js">>, [hasLineData |-> TRUE, lineData |-> <<1>>])>>,
                       <<"b.js">>, "entry not a dict")}

\* The malformed report the clients of the server POST: a number as the
\* entry of a.js.
MalformedContent == JsonBadShape(<<>>, <<"a.js">>, "entry not a dict")

\* What handling a request leaves: the response sent and the coverage
\* store; a report is merged when the store handler answers.
Serve(req, res) ==
    \E cover_dict \in {IF res.handler = "StoreCoveragePageHandler"
                       THEN req.content.cover_dict ELSE <<>>} :
        /\ response' = res.response
        /\ suite_name_set' = res.cdata.names
        /\ src_dict' = res.cdata.src
        /\ rel_path_dict' = res.cdata.rel
        /\ ever_covered' = ever_covered \cup CoveredBy(ROOT_DIR, cover_dict)
        /\ last_call' =
             IF res.handler = "StoreCoveragePageHandler"
             THEN [op |-> "load_from_dict",
                   zeroed |-> ZeroedBy(ROOT_DIR, cover_dict) \cap ever_covered # {},
                   first |-> IF last_call.op = "init"
                             THEN FirstData(src_dict, ROOT_DIR, cover_dict)
                             ELSE {},
                   data |-> last_call.data \cup DataBy(ROOT_DIR, cover_dict),
                   is_dict |-> TRUE, raised |-> "none"]
             ELSE last_call

CoverageStore == [names |-> suite_name_set, src |-> src_dict, rel |-> rel_path_dict]

\* The server thread handles POST /jscoverage-store/<suite_name>.
PostCoverage(suite_name, content) ==
    /\ server.state \in {"starting", "started", "start_failed"}
    /\ \E res \in {handle_request(server, disk_lines, CoverageStore,
                                  StoreRequest(suite_name, content))} :
          Serve(StoreRequest(suite_name, content), res)
    /\ request' = NoRequest
    /\ posted' = [ever |-> posted.ever \cup {suite_name},
                  started |-> IF server.state = "started"
                              THEN posted.started \cup {suite_name}
                              ELSE posted.started]
    /\ UNCHANGED <<disk_lines, instr_vars, conc_vars, retry_vars, ctor, server, call>>

\* The server thread handles the request received: do_GET or do_POST.
Dispatch ==
    /\ ~request.handled
    /\ server.state \in {"starting", "started", "start_failed"}
    /\ \E res \in {handle_request(server, disk_lines, CoverageStore, request)} :
          /\ Serve(request, res)
          /\ request' = [request EXCEPT !.handled = TRUE,
                                        !.handler = res.handler,
                                        !.page = res.page,
                                        !.invoked = res.invoked,
                                        !.raised = res.raised,
                                        !.instr_calls = res.instr_calls]
    /\ UNCHANGED <<disk_lines, instr_vars, conc_vars, retry_vars, ctor, server, call, posted>>

\* all_coverage_data() is called by the thread that called start(): None
\* without coverage data, else _block_until(_has_all_coverage) starts its
\* clock.
CallAllCoverageData ==
    /\ call.pc = "idle"
    /\ server.state # "starting"
    /\ call' = IF server.coverage_data
               THEN [pc |-> "poll", elapsed |-> 0, result |-> "none",
                     seen_equal |-> FALSE,
                     complete_at_call |->
                        /\ server.state = "started"
                        /\ server.desc_dict \subseteq posted.started]
               ELSE [NoCall EXCEPT !.result = "None"]
    /\ UNCHANGED <<cov_vars, http_vars, instr_vars, conc_vars, retry_vars, ctor, server, suite_name_set, posted>>

\* while not success_func(): the poll; all_coverage_data() returns the
\* coverage data when it succeeds.
Poll ==
    /\ call.pc = "poll"
    /\ call' = IF has_all_coverage(server, suite_name_set)
               THEN [call EXCEPT !.pc = "idle", !.result = "data",
                                 !.seen_equal = (suite_name_set = server.desc_dict)]
               ELSE [call EXCEPT !.pc = "timecheck",
                                 !.seen_equal = (suite_name_set = server.desc_dict)]
    /\ UNCHANGED <<cov_vars, http_vars, instr_vars, conc_vars, retry_vars, ctor, server, suite_name_set, posted>>

\* Time passes between the poll and the reading of the clock.
Tick ==
    /\ call.pc = "timecheck"
    /\ call.elapsed < MaxElapsed
    /\ call' = [call EXCEPT !.elapsed = @ + 1]
    /\ UNCHANGED <<cov_vars, http_vars, instr_vars, conc_vars, retry_vars, ctor, server, suite_name_set, posted>>

\* if time.time() - start_time > self.COVERAGE_TIMEOUT: raise TimeoutError()
TimeCheck ==
    /\ call.pc = "timecheck"
    /\ call' = IF call.elapsed > COVERAGE_TIMEOUT
               THEN [call EXCEPT !.pc = "idle", !.result = "timeout"]
               ELSE [call EXCEPT !.pc = "sleep"]
    /\ UNCHANGED <<cov_vars, http_vars, instr_vars, conc_vars, retry_vars, ctor, server, suite_name_set, posted>>

\* Faulty variant: the clock is started again after every sleep.
Sleep_restart ==
    /\ call.pc = "sleep"
    /\ call' = [call EXCEPT !.pc = "poll", !.elapsed = 0]
    /\ UNCHANGED <<cov_vars, http_vars, instr_vars, conc_vars, retry_vars, ctor, server, suite_name_set, posted>>

\* time.sleep(self.COVERAGE_WAIT_TIME)
Sleep ==
    /\ call.pc = "sleep"
    /\ call' = [call EXCEPT !.pc = "poll", !.elapsed = @ + COVERAGE_WAIT_TIME]
    /\ UNCHANGED <<cov_vars, http_vars, instr_vars, conc_vars, retry_vars, ctor, server, suite_name_set, posted>>

-----------------------------------------------------------------------------
(* SrcInstrumenter *)

MAX_START_ATTEMPTS == 10

MAX_CONNECT_ATTEMPTS == 10

PORT_MIN == 10000

PORT_MAX == 40000

\* The values random.randint(PORT_MIN, PORT_MAX) returns in this model.
PortSample == (PORT_MIN..(PORT_MIN + NumPorts - 2)) \cup {PORT_MAX}

\* The code only tests a drawn port for membership in used_ports, so the
\* unused ports are interchangeable: a draw yields a used port, the least
\* unused port or PORT_MAX.
Draws ==
    LET unused == PortSample \ {used_ports[i] : i \in DOMAIN used_ports}
    IN  {p \in PortSample :
            \/ p \notin unused
            \/ \A q \in unused : p <= q
            \/ p = PORT_MAX}

Instrs == {"i1", "i2"}

\* No start() call so far. A start() call keeps its num_attempts, the
\* launches and sleeps it made (log) and how it ended (result: "ok",
\* "warned" or "SrcInstrumenterError") until the next call.
NoStart ==
    [active |-> FALSE, inst |-> "i1", num_attempts |-> 0, log |-> <<>>,
     result |-> "none"]

\* Faulty variant: only the port drawn last is remembered and refused.
port_accepted_last(port_num) ==
    IF used_ports = <<>> THEN TRUE
    ELSE used_ports[Len(used_ports)] # port_num

\* Whether the while loop of _random_unused_port ends with the draw port_num.
port_accepted(port_num) == \A i \in DOMAIN used_ports : used_ports[i] # port_num

\* Faulty variant: the subprocess is not polled after Popen.
start_jscover_unpolled(outcome) ==
    IF outcome = "oserror" THEN "OSError" ELSE "returned"

\* How _start_jscover ends: Popen raises OSError, process.poll() is not
\* None and SrcInstrumenterError is raised, or (port_num, process) is
\* returned.
start_jscover(outcome) ==
    IF outcome = "oserror" THEN "OSError"
    ELSE IF outcome = "exited" THEN "SrcInstrumenterError"
    ELSE "returned"

\* Faulty variant: start() passes no fail_fast_errors.
START_FAIL_FAST_none == {}

\* fail_fast_errors=[OSError] of start().
START_FAIL_FAST == {"OSError"}

\* One launch of JSCover, and one time.sleep of _retry, in a start() call.
Launch(outcome, port_num) == [ev |-> "launch", outcome |-> outcome, port |-> port_num]

Slept == [ev |-> "sleep", outcome |-> "none", port |-> 0]

\* Faulty variant: start() enters _retry whether or not JSCover is held.
StartCall_always(i) ==
    /\ ~cur_start.active
    /\ cur_start' = [NoStart EXCEPT !.active = TRUE, !.inst = i]
    /\ UNCHANGED <<used_ports, popen_calls, instr, isrc, stop_call>>

\* SrcInstrumenter.start() is called: it warns and returns if JSCover is
\* already held, else it enters _retry(_start_jscover, MAX_START_ATTEMPTS).
StartCall(i) ==
    /\ ~cur_start.active
    /\ cur_start' = IF instr[i].jscover = "None"
                    THEN [NoStart EXCEPT !.active = TRUE, !.inst = i]
                    ELSE [NoStart EXCEPT !.inst = i, !.result = "warned"]
    /\ UNCHANGED <<used_ports, popen_calls, instr, isrc, stop_call>>

\* One call of _start_jscover inside _retry: the port is drawn and
\* remembered, Popen is called, and the subprocess is polled. Popen raises
\* OSError (fail fast), or the subprocess has exited (sleep and retry, or
\* give up after MAX_START_ATTEMPTS), or it is alive (start() returns).
\* start() turns the OSError and the SrcInstrumenterError that leave _retry
\* into a SrcInstrumenterError.
StartAttempt(outcome) ==
    /\ cur_start.active
    /\ isrc' = isrc
    /\ stop_call' = stop_call
    /\ \E port_num \in Draws :
        /\ port_accepted(port_num)
        /\ used_ports' = Append(used_ports, port_num)
        /\ popen_calls' = Append(popen_calls, port_num)
        /\ \E res \in {start_jscover(outcome)},
              log \in {Append(cur_start.log, Launch(outcome, port_num))} :
             IF res = "returned"
             THEN /\ instr' = [instr EXCEPT ![cur_start.inst] =
                                  [port_num |-> port_num, jscover |-> "running"]]
                  /\ cur_start' = [cur_start EXCEPT !.active = FALSE,
                                      !.log = log, !.result = "ok"]
             ELSE /\ instr' = instr
                  /\ cur_start' =
                       IF res \in START_FAIL_FAST
                       THEN [cur_start EXCEPT !.active = FALSE, !.log = log,
                                !.result = "SrcInstrumenterError"]
                       ELSE IF cur_start.num_attempts + 1 >= MAX_START_ATTEMPTS
                       THEN [cur_start EXCEPT !.active = FALSE, !.log = log,
                                !.num_attempts = @ + 1,
                                !.result = "SrcInstrumenterError"]
                       ELSE [cur_start EXCEPT !.num_attempts = @ + 1,
                                !.log = Append(log, Slept)]

\* What instrumented_src raises: SrcInstrumenterError with one of its
\* three messages, or an exception of _get_src_from_jscover as it is.
COULD_NOT_START == "Could not start JSCover"

COULD_NOT_CONNECT == "Could not connect to JSCover server."

COULD_NOT_RETRIEVE == "Could not retrieve url"

\* No instrumented_src() call so far. `first` and `last` are the outcomes
\* of the first and the latest HTTP GET of the call, `gets` and `sleeps`
\* count its GETs and the sleeps of _retry, `restarts` the start() calls it
\* made after its first GET; result.by is the GET whose body is returned.
NoIsrc ==
    [pc |-> "idle", inst |-> "i1", num_attempts |-> 0, gets |-> 0,
     sleeps |-> 0, restarts |-> 0, first |-> "none", last |-> "none",
     result |-> [kind |-> "none", class |-> "none", msg |-> "none", by |-> 0]]

\* What _get_src_from_jscover does with the answer to its GET: the body is
\* returned, or an exception is raised. response.text.decode('utf-8')
\* encodes the unicode text as ASCII first, which raises UnicodeEncodeError
\* for a body with a character beyond ASCII.
get_src_from_jscover(outcome) ==
    IF outcome = "conn_error" THEN "ConnectionError"
    ELSE IF outcome = "non200" THEN "SrcInstrumenterError"
    ELSE IF outcome = "undecodable" THEN "UnicodeEncodeError"
    ELSE "returned"

\* Faulty variant: instrumented_src has no except clause.
isrc_raised_raw(class, by) ==
    [kind |-> "raised", class |-> class,
     msg |-> IF class = "SrcInstrumenterError" THEN COULD_NOT_RETRIEVE ELSE "none",
     by |-> by]

\* The exception that leaves instrumented_src when _retry re-raises an
\* exception of class `class`: except requests.exceptions.ConnectionError:
\* raise SrcInstrumenterError("Could not connect to JSCover server.")
isrc_raised(class, by) ==
    IF class = "ConnectionError"
    THEN [kind |-> "raised", class |-> "SrcInstrumenterError",
          msg |-> COULD_NOT_CONNECT, by |-> by]
    ELSE [kind |-> "raised", class |-> class,
          msg |-> IF class = "SrcInstrumenterError"
                  THEN COULD_NOT_RETRIEVE ELSE "none",
          by |-> by]

\* The answers a GET to the instrumenter's port can get: nothing listens
\* once the subprocess is gone.
GetOutcomes(i) ==
    IF instr[i].jscover = "running"
    THEN {"ok", "non200", "conn_error", "undecodable"}
    ELSE {"conn_error"}

\* instrumented_src(rel_path) is called: if self._jscover is None it calls
\* start() first, else it goes on to _retry(try_func, MAX_CONNECT_ATTEMPTS).
IsrcCall(i) ==
    /\ isrc.pc = "idle"
    /\ ~cur_start.active
    /\ IF instr[i].jscover = "None"
       THEN /\ isrc' = [NoIsrc EXCEPT !.pc = "start", !.inst = i]
            /\ cur_start' = [NoStart EXCEPT !.active = TRUE, !.inst = i]
       ELSE /\ isrc' = [NoIsrc EXCEPT !.pc = "get", !.inst = i]
            /\ cur_start' = cur_start
    /\ UNCHANGED <<used_ports, popen_calls, instr, stop_call>>

\* The start() call of instrumented_src has ended: its SrcInstrumenterError
\* leaves instrumented_src, or the retries of the GET begin.
IsrcStartReturns ==
    /\ isrc.pc = "start"
    /\ ~cur_start.active
    /\ isrc' = IF cur_start.result = "ok"
               THEN [isrc EXCEPT !.pc = "get"]
               ELSE [isrc EXCEPT !.pc = "done",
                                 !.result = [kind |-> "raised",
                                             class |-> "SrcInstrumenterError",
                                             msg |-> COULD_NOT_START, by |-> 0]]
    /\ UNCHANGED <<used_ports, popen_calls, instr, cur_start, stop_call>>

\* One round of _retry in instrumented_src: try_func issues the GET; its
\* value is returned, or its exception is counted (no fail_fast_errors are
\* passed) and re-raised after MAX_CONNECT_ATTEMPTS, else _retry sleeps.
IsrcGet(outcome) ==
    /\ isrc.pc = "get"
    /\ outcome \in GetOutcomes(isrc.inst)
    /\ \E res \in {get_src_from_jscover(outcome)} :
         isrc' =
           LET seen == [isrc EXCEPT !.gets = @ + 1, !.last = outcome,
                                    !.first = IF isrc.gets = 0 THEN outcome ELSE @]
           IN  IF res = "returned"
               THEN [seen EXCEPT !.pc = "done",
                                 !.result = [kind |-> "returned", class |-> "none",
                                             msg |-> "none", by |-> seen.gets]]
               ELSE IF isrc.num_attempts + 1 >= MAX_CONNECT_ATTEMPTS
               THEN [seen EXCEPT !.pc = "done", !.num_attempts = @ + 1,
                                 !.result = isrc_raised(res, seen.gets)]
               ELSE [seen EXCEPT !.num_attempts = @ + 1, !.sleeps = @ + 1]
    /\ UNCHANGED <<used_ports, popen_calls, instr, cur_start, stop_call>>

\* No stop() call so far.
NoStop == [result |-> "none"]

\* SrcInstrumenter.stop(): terminate() on the held subprocess, outside any
\* try block, or a warning if no subprocess is held. stop() leaves
\* self._jscover as it is.
StopInstr(i) ==
    /\ ~cur_start.active
    /\ IF instr[i].jscover = "None"
       THEN /\ stop_call' = [result |-> "warned"]
            /\ instr' = instr
       ELSE \E outcome \in terminate_outcomes(instr[i].jscover) :
              /\ stop_call' = [result |-> IF outcome = "returns"
                                          THEN "returned" ELSE outcome]
              /\ instr' = IF instr[i].jscover = "running"
                          THEN [instr EXCEPT ![i].jscover = "terminated"]
                          ELSE instr
    /\ UNCHANGED <<used_ports, popen_calls, cur_start, isrc>>

\* A running JSCover subprocess dies on its own.
ProcessExits(i) ==
    /\ instr[i].jscover = "running"
    /\ instr' = [instr EXCEPT ![i].jscover = "exited"]
    /\ UNCHANGED <<used_ports, popen_calls, cur_start, isrc, stop_call>>

InstrIdle ==
    /\ used_ports = <<>>
    /\ popen_calls = <<>>
    /\ instr = [i \in Instrs |-> [port_num |-> 0, jscover |-> "None"]]
    /\ cur_start = NoStart
    /\ isrc = NoIsrc
    /\ stop_call = NoStop

-----------------------------------------------------------------------------
(* CoverageData.load_from_dict run by request threads (ThreadingMixIn): a   *)
(* thread can be pre-empted between any two operations on the shared        *)
(* dicts. Each thread loads a report of one source.                         *)
(* A thread holds existing_dict by reference; with two threads the dict it  *)
(* refers to stays the one _src_dict holds, since a dict is only replaced   *)
(* by a thread that found None before any dict was stored.                  *)

Threads == {"t1", "t2"}

NoThread ==
    [pc |-> "done", key |-> <<>>, line_list |-> <<>>, idx |-> 0,
     already_covered |-> FALSE]

ConcIdle ==
    /\ threads = [t \in Threads |-> NoThread]
    /\ store0 = <<>>

FullPathOf(t) == PathJoin(ROOT_DIR, StripLeadingSlash(threads[t].key))

\* The line numbers of the thread's cover_dict in the order iteritems()
\* yields them.
RECURSIVE LineNums(_, _)
LineNums(line_list, num) ==
    IF num >= Len(line_list) THEN <<>>
    ELSE (IF line_list[num + 1] # NULL THEN <<num>> ELSE <<>>)
         \o LineNums(line_list, num + 1)

\* self._rel_path_dict[full_path] = rel_src
ThreadStoreRelPath(t) ==
    /\ threads[t].pc = "rel_path"
    /\ rel_path_dict' = Put(rel_path_dict, FullPathOf(t),
                            StripLeadingSlash(threads[t].key))
    /\ threads' = [threads EXCEPT ![t].pc = "get"]
    /\ UNCHANGED <<src_dict, disk_lines, ever_covered, last_call, http_vars,
                   instr_vars, srv_vars, store0, retry_vars>>

\* existing_dict = self._src_dict.get(full_path) and the test of it.
ThreadGetExisting(t) ==
    /\ threads[t].pc = "get"
    /\ threads' = [threads EXCEPT ![t].pc =
                     IF FullPathOf(t) \in DOMAIN src_dict
                        /\ ~src_dict[FullPathOf(t)].none
                     THEN IF LineNums(threads[t].line_list, 0) = <<>>
                          THEN "done" ELSE "read"
                     ELSE "store"]
    /\ UNCHANGED <<cov_vars, http_vars, instr_vars, srv_vars, store0, retry_vars>>

\* self._src_dict[full_path] = cover_dict
ThreadStoreNew(t) ==
    /\ threads[t].pc = "store"
    /\ src_dict' = Put(src_dict, FullPathOf(t),
                       DictVal(CoverDictOf(threads[t].line_list)))
    /\ threads' = [threads EXCEPT ![t].pc = "done"]
    /\ UNCHANGED <<rel_path_dict, disk_lines, ever_covered, last_call, http_vars,
                   instr_vars, srv_vars, store0, retry_vars>>

\* already_covered = existing_dict.get(line_num, False)
ThreadReadLine(t) ==
    /\ threads[t].pc = "read"
    /\ LET line_num == LineNums(threads[t].line_list, 0)[threads[t].idx]
           existing_dict == src_dict[FullPathOf(t)].lines
       IN  threads' = [threads EXCEPT
                         ![t].pc = "write",
                         ![t].already_covered =
                             IF line_num \in DOMAIN existing_dict
                             THEN existing_dict[line_num] ELSE FALSE]
    /\ UNCHANGED <<cov_vars, http_vars, instr_vars, srv_vars, store0, retry_vars>>

\* existing_dict[line_num] = is_covered or already_covered
ThreadWriteLine(t) ==
    /\ threads[t].pc = "write"
    /\ LET line_nums == LineNums(threads[t].line_list, 0)
           line_num == line_nums[threads[t].idx]
           is_covered == threads[t].line_list[line_num + 1] > 0
           existing_dict == src_dict[FullPathOf(t)].lines
       IN  /\ src_dict' = Put(src_dict, FullPathOf(t),
                              DictVal(Put(existing_dict, line_num,
                                          is_covered \/ threads[t].already_covered)))
           /\ threads' = [threads EXCEPT
                            ![t].pc = IF threads[t].idx < Len(line_nums)
                                      THEN "read" ELSE "done",
                            ![t].idx = IF threads[t].idx < Len(line_nums)
                                       THEN @ + 1 ELSE @]
    /\ UNCHANGED <<rel_path_dict, disk_lines, ever_covered, last_call, http_vars,
                   instr_vars, srv_vars, store0, retry_vars>>

-----------------------------------------------------------------------------
(* util.retry(try_func, max_attempts, wait_sec, recover_func,               *)
(* num_attempts_before_recover, fail_fast_errors): one call, followed       *)
(* through its try_func, time.sleep and recover_func calls. What try_func    *)
(* and recover_func do is the caller's: each invocation returns or raises.  *)

\* Exception classes: Exception, the JavaScriptError of browser.py and a
\* subclass of it.
ExClasses == {"Exception", "JavaScriptError", "SubJavaScriptError"}

\* isinstance(ex, exception_class), ex being an instance of ex_class.
isinstance(ex_class, exception_class) ==
    \/ ex_class = exception_class
    \/ ex_class = "SubJavaScriptError" /\ exception_class = "JavaScriptError"
    \/ exception_class = "Exception"

\* fail_fast_errors: None, or a list of classes.
NoFailFast == [none |-> TRUE, classes |-> <<>>]

FailFast(classes) == [none |-> FALSE, classes |-> classes]

FailFastChoices == {NoFailFast, FailFast(<<>>), FailFast(<<"JavaScriptError">>)}

\* Faulty variant: the class of the exception is compared for equality
\* (type(ex) == exception_class).
is_fail_fast_exact(ex_class, fail_fast_errors) ==
    /\ ~fail_fast_errors.none
    /\ \E i \in DOMAIN fail_fast_errors.classes :
          ex_class = fail_fast_errors.classes[i]

\* if fail_fast_errors is not None: for exception_class in
\* fail_fast_errors: if isinstance(ex, exception_class): raise ex
is_fail_fast(ex_class, fail_fast_errors) ==
    /\ ~fail_fast_errors.none
    /\ \E i \in DOMAIN fail_fast_errors.classes :
          isinstance(ex_class, fail_fast_errors.classes[i])

\* Faulty variant: one attempt too many (num_attempts > max_attempts).
attempts_exhausted_late(num_attempts, max_attempts) == num_attempts > max_attempts

\* if num_attempts >= max_attempts: raise ex
attempts_exhausted(num_attempts, max_attempts) == num_attempts >= max_attempts

\* Faulty variant: recovery starts one failure late
\* (num_attempts > num_attempts_before_recover).
should_recover_late(has_recover, num_attempts, num_attempts_before_recover) ==
    has_recover /\ num_attempts > num_attempts_before_recover

\* recover_func is not None and num_attempts >= num_attempts_before_recover
should_recover(has_recover, num_attempts, num_attempts_before_recover) ==
    has_recover /\ num_attempts >= num_attempts_before_recover

\* How a call ended: not yet, a value returned, or an exception raised.
\* `by` is the try_func invocation the value or exception came from (0 for
\* an exception of recover_func).
NoResult == [kind |-> "none", class |-> "none", by |-> 0]

Returned(by) == [kind |-> "returned", class |-> "none", by |-> by]

Raised(class, by) == [kind |-> "raised", class |-> class, by |-> by]

\* No retry call.
RetryIdle ==
    /\ rt = [pc |-> "idle", max_attempts |-> 1, has_recover |-> FALSE,
             num_attempts_before_recover |-> 1, fail_fast_errors |-> NoFailFast,
             num_attempts |-> 0, result |-> NoResult]
    /\ rt_log = <<>>

\* The entries of the history.
Event(ev, class) == [ev |-> ev, class |-> class]

\* The number of try_func invocations among the first n entries.
Tries(n) == Cardinality({i \in 1..n : rt_log[i].ev = "try"})

\* try: return try_func(); except BaseException as ex: the fail-fast test,
\* num_attempts += 1 and the test of max_attempts. outcome is "returns" or
\* the class of the exception try_func raises.
RetryTry(outcome) ==
    /\ rt.pc = "try"
    /\ rt_log' = Append(rt_log, Event("try", IF outcome = "returns"
                                             THEN "none" ELSE outcome))
    /\ rt' =
         LET by == Tries(Len(rt_log)) + 1
         IN  IF outcome = "returns"
             THEN [rt EXCEPT !.pc = "done", !.result = Returned(by)]
             ELSE IF is_fail_fast(outcome, rt.fail_fast_errors)
             THEN [rt EXCEPT !.pc = "done", !.result = Raised(outcome, by)]
             ELSE IF attempts_exhausted(rt.num_attempts + 1, rt.max_attempts)
             THEN [rt EXCEPT !.pc = "done", !.num_attempts = @ + 1,
                             !.result = Raised(outcome, by)]
             ELSE [rt EXCEPT !.pc = "sleep", !.num_attempts = @ + 1]
    /\ UNCHANGED <<cov_vars, http_vars, instr_vars, srv_vars, conc_vars>>

\* time.sleep(wait_sec) and the test that decides on recover_func.
RetrySleep ==
    /\ rt.pc = "sleep"
    /\ rt_log' = Append(rt_log, Event("sleep", "none"))
    /\ rt' = [rt EXCEPT !.pc =
                 IF should_recover(rt.has_recover, rt.num_attempts,
                                   rt.num_attempts_before_recover)
                 THEN "recover" ELSE "try"]
    /\ UNCHANGED <<cov_vars, http_vars, instr_vars, srv_vars, conc_vars>>

\* recover_func(): it returns, or its exception leaves retry (the call is
\* inside the except block, nothing catches it).
RetryRecover(outcome) ==
    /\ rt.pc = "recover"
    /\ rt_log' = Append(rt_log, Event("recover", IF outcome = "returns"
                                                 THEN "none" ELSE outcome))
    /\ rt' = IF outcome = "returns"
             THEN [rt EXCEPT !.pc = "try"]
             ELSE [rt EXCEPT !.pc = "done", !.result = Raised(outcome, 0)]
    /\ UNCHANGED <<cov_vars, http_vars, instr_vars, srv_vars, conc_vars>>

-----------------------------------------------------------------------------
(* The store on its own: CoverageData(expected_src_list), then any sequence *)
(* of load_from_dict calls.                                                 *)

\* What the disk holds for the sources: a.js with MaxLines lines; b.js
\* cannot be read.
DiskChoices == {[p \in {PathJoin(ROOT_DIR, <<"a.js">>)} |-> MaxLines]}

CovInit ==
    /\ \E expected_src_list \in SUBSET FullPaths :
          src_dict = [p \in expected_src_list |-> NoneVal]
    /\ last_call = NoLoad
    /\ rel_path_dict = <<>>
    /\ disk_lines \in DiskChoices
    /\ ever_covered = {}
    /\ request = NoRequest
    /\ response = NoResponse
    /\ InstrIdle
    /\ ConcIdle
    /\ RetryIdle
    /\ ServerIdle

\* The reports, each with what the history keeps of it: the lines it gives
\* a count > 0, the lines it gives a count of 0, and the sources it has a
\* lineData list for.
ReportEffects ==
    {[cover_dict |-> r, covered |-> CoveredBy(ROOT_DIR, r),
      zeroed |-> ZeroedBy(ROOT_DIR, r), data |-> DataBy(ROOT_DIR, r)] :
       r \in Reports}

\* One more load_from_dict call is made as long as none has raised: a call
\* that raised leaves the store of the state before it, whose later calls
\* are those of that state.
LoadFromDict ==
    /\ last_call.raised = "none"
    /\ \E rep \in ReportEffects :
        \E st \in {load_from_dict([src |-> src_dict, rel |-> rel_path_dict],
                                  ROOT_DIR, rep.cover_dict)} :
            /\ src_dict' = st.src
            /\ rel_path_dict' = st.rel
            /\ ever_covered' = ever_covered \cup rep.covered
            /\ last_call' = [op |-> "load_from_dict",
                             zeroed |-> rep.zeroed \cap ever_covered # {},
                             first |-> IF last_call.op = "init"
                                       THEN FirstData(src_dict, ROOT_DIR,
                                                      rep.cover_dict)
                                       ELSE {},
                             data |-> last_call.data \cup rep.data,
                             is_dict |-> TRUE, raised |-> "none"]
            /\ UNCHANGED <<disk_lines, http_vars, instr_vars, conc_vars,
                           retry_vars, srv_vars>>

\* load_from_dict is called with a value that is not a dict.
LoadNotDict ==
    /\ last_call.raised = "none"
    /\ \E cover_dict \in NotDicts :
         \E res \in {load_not_dict([src |-> src_dict, rel |-> rel_path_dict],
                                   ROOT_DIR, cover_dict)} :
            /\ src_dict' = res.src
            /\ rel_path_dict' = res.rel
            /\ last_call' = [last_call EXCEPT !.is_dict = FALSE,
                                              !.raised = res.raised]
    /\ UNCHANGED <<disk_lines, ever_covered, http_vars, instr_vars, conc_vars,
                   retry_vars, srv_vars>>

CovNext == LoadFromDict \/ LoadNotDict

SpecCov == CovInit /\ [][CovNext]_vars

-----------------------------------------------------------------------------
(* A request whose path a page handler has matched with content of any      *)
(* size, with any Range header: _handle_request from the byte-range check   *)
(* on.                                                                      *)

RangeInit ==
    /\ src_dict = <<>>
    /\ rel_path_dict = <<>>
    /\ disk_lines = <<>>
    /\ ever_covered = {}
    /\ last_call = NoLoad
    /\ \E n \in 0..MaxSize, is_file \in BOOLEAN, h \in Headers :
          request = [Request("GET", <<>>, h, NotJson) EXCEPT
                       !.page = IF is_file THEN FileContent(Resource(n))
                                ELSE StringIO(Resource(n))]
    /\ response = NoResponse
    /\ InstrIdle
    /\ ConcIdle
    /\ RetryIdle
    /\ ServerIdle

HandleMatched ==
    /\ ~request.handled
    /\ response' = respond(request.page, request.range_header)
    /\ request' = [request EXCEPT !.handled = TRUE]
    /\ UNCHANGED <<cov_vars, instr_vars, conc_vars, retry_vars, srv_vars>>

RangeNext == HandleMatched

SpecRange == RangeInit /\ [][RangeNext]_vars

-----------------------------------------------------------------------------
(* Instrumenters started and stopped one call at a time, in any order.      *)

InstrInit ==
    /\ src_dict = <<>>
    /\ rel_path_dict = <<>>
    /\ disk_lines = <<>>
    /\ ever_covered = {}
    /\ last_call = NoLoad
    /\ request = NoRequest
    /\ response = NoResponse
    /\ InstrIdle
    /\ ConcIdle
    /\ RetryIdle
    /\ ServerIdle

InstrNext ==
    /\ UNCHANGED <<cov_vars, http_vars, srv_vars, conc_vars, retry_vars>>
    /\ \/ \E i \in Instrs : StartCall(i)
       \/ \E outcome \in {"alive", "exited", "oserror"} : StartAttempt(outcome)
       \/ \E i \in Instrs : StopInstr(i)
       \/ \E i \in Instrs : ProcessExits(i)

SpecInstr == InstrInit /\ [][InstrNext]_vars

-----------------------------------------------------------------------------
(* One instrumented_src() call on an instrumenter that was not started, or *)
(* that start() has started on its first launch; the JSCover subprocess     *)
(* can die at any time.                                                     *)

IsrcInit ==
    /\ src_dict = <<>>
    /\ rel_path_dict = <<>>
    /\ disk_lines = <<>>
    /\ ever_covered = {}
    /\ last_call = NoLoad
    /\ request = NoRequest
    /\ response = NoResponse
    /\ ConcIdle
    /\ RetryIdle
    /\ ServerIdle
    /\ isrc = NoIsrc
    /\ stop_call = NoStop
    /\ \/ /\ used_ports = <<>>
          /\ popen_calls = <<>>
          /\ instr = [i \in Instrs |-> [port_num |-> 0, jscover |-> "None"]]
          /\ cur_start = NoStart
       \/ \E port_num \in {PORT_MIN, PORT_MAX} :
             /\ used_ports = <<port_num>>
             /\ popen_calls = <<port_num>>
             /\ instr = [i \in Instrs |->
                           IF i = "i1"
                           THEN [port_num |-> port_num, jscover |-> "running"]
                           ELSE [port_num |-> 0, jscover |-> "None"]]
             /\ cur_start = [NoStart EXCEPT
                               !.log = <<Launch("alive", port_num)>>,
                               !.result = "ok"]

IsrcNext ==
    /\ UNCHANGED <<cov_vars, http_vars, srv_vars, conc_vars, retry_vars>>
    /\ \/ \E i \in Instrs : IsrcCall(i)
       \/ \E outcome \in {"alive", "exited", "oserror"} : StartAttempt(outcome)
       \/ IsrcStartReturns
       \/ \E outcome \in {"ok", "non200", "conn_error", "undecodable"} :
             IsrcGet(outcome)
       \/ \E i \in Instrs : ProcessExits(i)

SpecIsrc == IsrcInit /\ [][IsrcNext]_vars

-----------------------------------------------------------------------------
(* A server with any suites, with or without a JSCover path: it is started, *)
(* clients POST coverage reports in any order while the main thread calls   *)
(* all_coverage_data(), and it is stopped.                                  *)

\* The SuiteDescription instances a server is constructed from: one has a
\* suite name, and descriptions of the same name may differ in the rest.
SuiteDescs == [suite_name : SuiteNames, root : {"r1", "r2"}]

\* The dict comprehension {suite.suite_name(): suite for suite in
\* suite_desc_list}: under a name the last description of the list is kept.
suite_dict_of(suite_desc_list) ==
    [suite_name \in {suite_desc_list[i].suite_name : i \in DOMAIN suite_desc_list} |->
        suite_desc_list[CHOOSE i \in DOMAIN suite_desc_list :
                           /\ suite_desc_list[i].suite_name = suite_name
                           /\ \A j \in DOMAIN suite_desc_list :
                                 j > i => suite_desc_list[j].suite_name # suite_name]]

\* Faulty variant: one repeated key is tolerated.
suite_dict_from_list_lax(suite_desc_list) ==
    LET suite_dict == suite_dict_of(suite_desc_list)
    IN  IF Cardinality(DOMAIN suite_dict) + 1 < Len(suite_desc_list)
        THEN [raised |-> "DuplicateSuiteNameError", suite_dict |-> <<>>]
        ELSE [raised |-> "none", suite_dict |-> suite_dict]

\* SuitePageServer._suite_dict_from_list
suite_dict_from_list(suite_desc_list) ==
    LET suite_dict == suite_dict_of(suite_desc_list)
    IN  IF Cardinality(DOMAIN suite_dict) < Len(suite_desc_list)
        THEN [raised |-> "DuplicateSuiteNameError", suite_dict |-> <<>>]
        ELSE [raised |-> "none", suite_dict |-> suite_dict]

\* SuitePageServer.__init__: the constructor raises what
\* _suite_dict_from_list raises, else the server holds the dictionary.
Construct ==
    /\ ctor.result = "none"
    /\ \E res \in {suite_dict_from_list(ctor.suite_desc_list)} :
          IF res.raised # "none"
          THEN /\ ctor' = [ctor EXCEPT !.result = res.raised]
               /\ server' = server
          ELSE /\ ctor' = [ctor EXCEPT !.result = "constructed",
                                       !.desc_dict = res.suite_dict]
               /\ server' = NewServer(DOMAIN res.suite_dict, ctor.jscover_path)
    /\ UNCHANGED <<cov_vars, http_vars, instr_vars, conc_vars, retry_vars,
                   suite_name_set, call, posted>>

CtorInit ==
    /\ src_dict = <<>>
    /\ rel_path_dict = <<>>
    /\ disk_lines = <<>>
    /\ ever_covered = {}
    /\ last_call = NoLoad
    /\ request = NoRequest
    /\ response = NoResponse
    /\ InstrIdle
    /\ ConcIdle
    /\ RetryIdle
    /\ server = NewServer({}, FALSE)
    /\ suite_name_set = {}
    /\ call = NoCall
    /\ posted = NonePosted
    /\ \E suite_desc_list \in SeqsUpTo(SuiteDescs, MaxSuites),
          jscover_path \in BOOLEAN :
          ctor = [NoCtor EXCEPT !.suite_desc_list = suite_desc_list,
                                !.jscover_path = jscover_path]

CtorNext == Construct

SpecCtor == CtorInit /\ [][CtorNext]_vars

DescChoices == {{}, {"s1"}, SuiteNames}

ServerInit ==
    /\ src_dict = <<>>
    /\ rel_path_dict = <<>>
    /\ disk_lines \in DiskChoices
    /\ ever_covered = {}
    /\ last_call = NoLoad
    /\ request = NoRequest
    /\ response = NoResponse
    /\ InstrIdle
    /\ ConcIdle
    /\ RetryIdle
    /\ \E desc_dict \in DescChoices, jscover_path \in BOOLEAN :
          server = NewServer(desc_dict, jscover_path)
    /\ suite_name_set = {}
    /\ call = NoCall
    /\ posted = NonePosted
    /\ ctor = NoCtor

ServerNext ==
    \/ ServerStart
    \/ \E suite_name \in SuiteNames, started \in BOOLEAN :
          StartSuite(suite_name, started)
    \/ ServerStop
    \/ \E suite_name \in SuiteNames \cup {UNKNOWN_SUITE},
          content \in Contents \cup {MalformedContent} :
          PostCoverage(suite_name, content)
    \/ CallAllCoverageData
    \/ Poll
    \/ Tick
    \/ TimeCheck
    \/ Sleep

SpecServer == ServerInit /\ [][ServerNext]_vars

\* The sources start() has told the store to expect.
RECURSIVE ExpectedOf(_)
ExpectedOf(suites) ==
    IF suites = {} THEN <<>>
    ELSE LET suite_name == CHOOSE n \in suites : TRUE
         IN  AddExpected(ExpectedOf(suites \ {suite_name}),
                         Desc(suite_name).root_dir, Desc(suite_name).src_paths)

-----------------------------------------------------------------------------
(* all_coverage_data() on a server that start() has started with coverage,  *)
(* while clients POST reports or do not.                                    *)

WaitInit ==
    /\ rel_path_dict = <<>>
    /\ disk_lines \in DiskChoices
    /\ ever_covered = {}
    /\ last_call = NoLoad
    /\ request = NoRequest
    /\ response = NoResponse
    /\ InstrIdle
    /\ ConcIdle
    /\ RetryIdle
    /\ \E desc_dict \in DescChoices :
          /\ server = [NewServer(desc_dict, TRUE) EXCEPT
                         !.starts = [suite_name \in desc_dict |-> 1],
                         !.state = "started",
                         !.coverage_data = TRUE,
                         !.src_instr_dict = desc_dict]
          /\ src_dict = ExpectedOf(desc_dict)
    /\ suite_name_set = {}
    /\ call = NoCall
    /\ posted = NonePosted
    /\ ctor = NoCtor

WaitNext ==
    \/ \E suite_name \in SuiteNames \cup {UNKNOWN_SUITE}, content \in Contents :
          PostCoverage(suite_name, content)
    \/ ServerStop
    \/ CallAllCoverageData
    \/ Poll
    \/ Tick
    \/ TimeCheck
    \/ Sleep

\* The thread that called all_coverage_data() is scheduled again and again:
\* each step of the loop of _block_until is taken once it can be. Nothing
\* is assumed of the clients (no POST has to arrive) and, beyond the sleep,
\* of the time that passes.
SpecWait ==
    /\ WaitInit /\ [][WaitNext]_vars
    /\ WF_vars(Poll) /\ WF_vars(TimeCheck) /\ WF_vars(Sleep)

-----------------------------------------------------------------------------
(* A server whose start() has returned or raised, with or without coverage, *)
(* any of the files on disk, receives one request of any kind.              *)

Path(words) == <<SEP>> \o words

RequestPaths ==
    {Path(<<"suite", SEP, "s1">>),
     Path(<<"suite", SEP, "s1", SEP, QM, "x">>),
     Path(<<"suite", SEP, UNKNOWN_SUITE>>),
     Path(<<"suite", SEP, "s1", SEP, "include", SEP, "a.js">>),
     Path(<<"suite", SEP, "s1", SEP, "include", SEP, "a.js", QM, "x">>),
     Path(<<"suite", SEP, "s1", SEP, "include", SEP, "lib.js">>),
     Path(<<"suite", SEP, "s1", SEP, "include", SEP, "spec.js">>),
     Path(<<"suite", SEP, "s1", SEP, "include", SEP, "fix.html">>),
     Path(<<"suite", SEP, "s1", SEP, "include", SEP, "x.js">>),
     Path(<<"suite", SEP, UNKNOWN_SUITE, SEP, "include", SEP, "a.js">>),
     Path(<<"suite", SEP, "s2", SEP, "include", SEP, "a.js">>),
     Path(<<"suite", SEP, "s2", SEP, "include", SEP, "b.js">>),
     Path(<<"runner", SEP, "r.js">>),
     Path(<<"runner", SEP, "x.js">>),
     Path(<<"jscoverage-store", SEP, "s1">>),
     Path(<<"jscoverage-store", SEP, UNKNOWN_SUITE, SEP>>),
     Path(<<"x">>)}

RequestHeaders == {NoHeader, Header(<<BYTES_EQ, "0", "-", "1">>)}

\* The files under the root directory that exist: a.js and lib.js or not;
\* spec.js, fix.html and x.js (which no suite lists) all or none; b.js does
\* not.
SuiteDisks ==
    {[p \in files \cup others |-> MaxLines] :
        files \in SUBSET {PathJoin(ROOT_DIR, <<"a.js">>),
                          PathJoin(ROOT_DIR, <<"lib.js">>)},
        others \in {{}, {PathJoin(ROOT_DIR, <<"spec.js">>),
                         PathJoin(ROOT_DIR, <<"fix.html">>),
                         PathJoin(ROOT_DIR, <<"x.js">>)}}}

DispatchInit ==
    /\ rel_path_dict = <<>>
    /\ disk_lines \in SuiteDisks
    /\ ever_covered = {}
    /\ last_call = NoLoad
    /\ \E method \in {"GET", "POST"}, path \in RequestPaths,
          h \in RequestHeaders, instr_ok \in BOOLEAN :
         \E render_ok \in IF match_suite(path).matched THEN BOOLEAN ELSE {TRUE} :
          \E content \in IF method = "GET" THEN {NotJson}
                          ELSE Contents \cup BadContents :
             request = [Request(method, path, h, content) EXCEPT
                          !.instr_ok = instr_ok, !.render_ok = render_ok]
    /\ response = NoResponse
    /\ InstrIdle
    /\ ConcIdle
    /\ RetryIdle
    /\ \E desc_dict \in DescChoices, jscover_path \in BOOLEAN :
          \E src_instr_dict \in IF jscover_path THEN SUBSET desc_dict ELSE {{}} :
           \E failed \in IF src_instr_dict = desc_dict THEN {{}}
                          ELSE {{f} : f \in desc_dict \ src_instr_dict} :
             /\ server = [NewServer(desc_dict, jscover_path) EXCEPT
                            !.starts = [suite_name \in desc_dict |->
                                          IF suite_name \in src_instr_dict \cup failed
                                          THEN 1 ELSE 0],
                            !.state = IF src_instr_dict = desc_dict
                                      THEN "started" ELSE "start_failed",
                            !.coverage_data = jscover_path,
                            !.src_instr_dict = src_instr_dict]
             /\ src_dict = IF jscover_path
                           THEN ExpectedOf(src_instr_dict \cup failed)
                           ELSE <<>>
    /\ suite_name_set = {}
    /\ call = NoCall
    /\ posted = NonePosted
    /\ ctor = NoCtor

DispatchNext == Dispatch

-----------------------------------------------------------------------------
(* A server built without a jscover_path is started, asked for              *)
(* all_coverage_data() and stopped, and receives requests of any kind.      *)

NoCovInit ==
    /\ src_dict = <<>>
    /\ rel_path_dict = <<>>
    /\ disk_lines \in SuiteDisks
    /\ ever_covered = {}
    /\ last_call = NoLoad
    /\ request = NoRequest
    /\ response = NoResponse
    /\ InstrIdle
    /\ ConcIdle
    /\ RetryIdle
    /\ \E desc_dict \in DescChoices : server = NewServer(desc_dict, FALSE)
    /\ suite_name_set = {}
    /\ call = NoCall
    /\ posted = NonePosted
    /\ ctor = NoCtor

\* A client sends the next request once the last one is answered; it has
\* no response yet.
Receive ==
    /\ request.handled
    /\ server.state \in {"starting", "started", "start_failed"}
    /\ \E method \in {"GET", "POST"}, path \in RequestPaths :
          \E content \in IF method = "GET" THEN {NotJson} ELSE Contents :
             request' = Request(method, path, NoHeader, content)
    /\ response' = NoResponse
    /\ UNCHANGED <<cov_vars, instr_vars, srv_vars, conc_vars, retry_vars>>

NoCovNext ==
    \/ ServerStart
    \/ ServerStop
    \/ CallAllCoverageData
    \/ Receive
    \/ Dispatch

SpecNoCov == NoCovInit /\ [][NoCovNext]_vars

SpecDispatch == DispatchInit /\ [][DispatchNext]_vars

-----------------------------------------------------------------------------
(* Two threads of one process, each in SrcInstrumenter._random_unused_port  *)
(* for a start() call of its own instrumenter. used_ports is a class        *)
(* attribute, read and appended to without a lock: a thread can be          *)
(* pre-empted between the test of the while loop and the append.            *)

\* A thread at the top of _random_unused_port: port_num = None.
NoPort == [pc |-> "draw", port_num |-> 0]

PortsInit ==
    /\ src_dict = <<>>
    /\ rel_path_dict = <<>>
    /\ disk_lines = <<>>
    /\ ever_covered = {}
    /\ last_call = NoLoad
    /\ request = NoRequest
    /\ response = NoResponse
    /\ used_ports \in {<<>>, <<PORT_MIN>>, <<PORT_MIN, PORT_MAX>>}
    /\ popen_calls = <<>>
    /\ instr = [i \in Instrs |-> [port_num |-> 0, jscover |-> "None"]]
    /\ cur_start = NoStart
    /\ isrc = NoIsrc
    /\ stop_call = NoStop
    /\ threads = [t \in Threads |-> NoPort]
    /\ store0 = <<>>
    /\ RetryIdle
    /\ ServerIdle

\* port_num = random.randint(10000, 40000)
DrawPort(t) ==
    /\ threads[t].pc = "draw"
    /\ \E port_num \in Draws :
          threads' = [threads EXCEPT ![t] = [pc |-> "test", port_num |-> port_num]]
    /\ UNCHANGED used_ports

\* while port_num is None or port_num in cls.used_ports
TestPort(t) ==
    /\ threads[t].pc = "test"
    /\ threads' = [threads EXCEPT ![t].pc =
                      IF \E i \in DOMAIN used_ports : used_ports[i] = threads[t].port_num
                      THEN "draw" ELSE "append"]
    /\ UNCHANGED used_ports

\* cls.used_ports.append(port_num); return port_num
AppendPort(t) ==
    /\ threads[t].pc = "append"
    /\ used_ports' = Append(used_ports, threads[t].port_num)
    /\ threads' = [threads EXCEPT ![t].pc = "done"]

PortsNext ==
    /\ UNCHANGED <<cov_vars, http_vars, srv_vars, retry_vars, store0,
                   popen_calls, instr, cur_start, isrc, stop_call>>
    /\ \/ \E t \in Threads : DrawPort(t)
       \/ \E t \in Threads : TestPort(t)
       \/ \E t \in Threads : AppendPort(t)

SpecPorts == PortsInit /\ [][PortsNext]_vars

-----------------------------------------------------------------------------
(* Two load_from_dict calls on one store, in both orders, and one of them   *)
(* made twice. The calls come from suites whose root directory is /root or  *)
(* /root/sub, so that a source can be reported under two root directories.  *)

SUB_DIR == ROOT_DIR \o <<SEP, "sub">>

\* The load_from_dict calls: a report of one source.
MergeCalls ==
    {[root_dir |-> root_dir, cover_dict |-> <<Item(k, e)>>] :
        root_dir \in {ROOT_DIR, SUB_DIR},
        k \in {<<"a.js">>, <<SEP, "a.js">>, <<"sub", SEP, "a.js">>},
        e \in Entries(MaxLines)}

\* The store after the calls of the sequence, made in order.
RECURSIVE LoadCalls(_, _)
LoadCalls(st, calls) ==
    IF calls = <<>> THEN st
    ELSE LoadCalls(load_from_dict(st, Head(calls).root_dir, Head(calls).cover_dict),
                   Tail(calls))

MergeInit ==
    /\ \E expected_src_list \in SUBSET {PathJoin(ROOT_DIR, <<"a.js">>),
                                        PathJoin(SUB_DIR, <<"a.js">>)} :
          src_dict = [p \in expected_src_list |-> NoneVal]
    /\ rel_path_dict = <<>>
    /\ \E first \in MergeCalls, second \in MergeCalls :
          last_call = [op |-> "init", first |-> first, second |-> second,
                       swapped |-> [src |-> <<>>, rel |-> <<>>],
                       once |-> [src |-> <<>>, rel |-> <<>>],
                       twice |-> [src |-> <<>>, rel |-> <<>>]]
    /\ disk_lines = <<>>
    /\ ever_covered = {}
    /\ request = NoRequest
    /\ response = NoResponse
    /\ InstrIdle
    /\ ConcIdle
    /\ RetryIdle
    /\ ServerIdle

\* The store receives the first call and then the second; last_call keeps
\* what the same store holds after the second call and then the first
\* (swapped), after the first call alone (once) and after the first call
\* made two times (twice).
LoadBoth ==
    /\ last_call.op = "init"
    /\ \E st \in {[src |-> src_dict, rel |-> rel_path_dict]} :
        \E res \in {LoadCalls(st, <<last_call.first, last_call.second>>)} :
          /\ src_dict' = res.src
          /\ rel_path_dict' = res.rel
          /\ last_call' =
                [last_call EXCEPT
                   !.op = "load_from_dict",
                   !.swapped = LoadCalls(st, <<last_call.second, last_call.first>>),
                   !.once = LoadCalls(st, <<last_call.first>>),
                   !.twice = LoadCalls(st, <<last_call.first, last_call.first>>)]
    /\ UNCHANGED <<disk_lines, ever_covered, http_vars, instr_vars, srv_vars,
                   conc_vars, retry_vars>>

MergeNext == LoadBoth

SpecMerge == MergeInit /\ [][MergeNext]_vars

-----------------------------------------------------------------------------
(* Two request threads load a report each into a store.                     *)

\* The lineData lists the threads report.
ThreadLineData == {<<0>>, <<1>>, <<1, 0>>}

\* The store before the threads: new, with a.js expected, or with a report
\* of a.js loaded.
ThreadStores ==
    {<<>>,
     add_expected_src(<<>>, ROOT_DIR, <<"a.js">>),
     load_from_dict([src |-> <<>>, rel |-> <<>>], ROOT_DIR,
                    <<Item(<<"a.js">>, [hasLineData |-> TRUE,
                                        lineData |-> <<0>>])>>).src}

ConcInit ==
    /\ src_dict \in ThreadStores
    /\ store0 = src_dict
    /\ rel_path_dict = <<>>
    /\ disk_lines = <<>>
    /\ ever_covered = {}
    /\ last_call = NoLoad
    /\ request = NoRequest
    /\ response = NoResponse
    /\ used_ports = <<>>
    /\ popen_calls = <<>>
    /\ instr = [i \in Instrs |-> [port_num |-> 0, jscover |-> "None"]]
    /\ cur_start = NoStart
    /\ isrc = NoIsrc
    /\ stop_call = NoStop
    /\ ServerIdle
    /\ RetryIdle
    /\ threads \in [Threads ->
                      {[pc |-> "rel_path", key |-> k, line_list |-> l, idx |-> 1,
                        already_covered |-> FALSE] :
                         k \in RelKeys, l \in ThreadLineData}]

ConcNext ==
    \E t \in Threads :
        \/ ThreadStoreRelPath(t)
        \/ ThreadGetExisting(t)
        \/ ThreadStoreNew(t)
        \/ ThreadReadLine(t)
        \/ ThreadWriteLine(t)

SpecConc == ConcInit /\ [][ConcNext]_vars

-----------------------------------------------------------------------------
(* A call of util.retry with any arguments of the bounds. *)

RetryInit ==
    /\ src_dict = <<>>
    /\ rel_path_dict = <<>>
    /\ disk_lines = <<>>
    /\ ever_covered = {}
    /\ last_call = NoLoad
    /\ request = NoRequest
    /\ response = NoResponse
    /\ InstrIdle
    /\ ConcIdle
    /\ ServerIdle
    /\ \E max_attempts \in 1..MaxAttempts, has_recover \in BOOLEAN,
          num_attempts_before_recover \in 0..MaxAttempts,
          fail_fast_errors \in FailFastChoices :
          rt = [pc |-> "try", max_attempts |-> max_attempts,
                has_recover |-> has_recover,
                num_attempts_before_recover |-> num_attempts_before_recover,
                fail_fast_errors |-> fail_fast_errors,
                num_attempts |-> 0, result |-> NoResult]
    /\ rt_log = <<>>

RetryNext ==
    \/ \E outcome \in {"returns"} \cup ExClasses : RetryTry(outcome)
    \/ RetrySleep
    \/ \E outcome \in {"returns", "Exception"} : RetryRecover(outcome)

SpecRetry == RetryInit /\ [][RetryNext]_vars

-----------------------------------------------------------------------------
(* The shapes of a Range header, read off the header text: 'bytes=' then    *)
(* one range A-B, A and B strings of digits (either may be empty).          *)

HdrValue == request.range_header.value

HdrHasPrefix ==
    request.range_header.present /\ HdrValue # <<>> /\ Head(HdrValue) = BYTES_EQ

HdrRest == Tail(HdrValue)

HdrDashes == {i \in 1..Len(HdrRest) : HdrRest[i] = "-"}

HdrCommas == {i \in 1..Len(HdrRest) : HdrRest[i] = ","}

HdrDash == CHOOSE i \in HdrDashes : TRUE

HdrA == SubSeq(HdrRest, 1, HdrDash - 1)

HdrB == SubSeq(HdrRest, HdrDash + 1, Len(HdrRest))

AllDigits(str) == \A i \in 1..Len(str) : str[i] \in {"0", "1"}

\* One range, both bounds digits only (or empty).
HdrSingle ==
    /\ HdrHasPrefix
    /\ HdrCommas = {}
    /\ Cardinality(HdrDashes) = 1
    /\ AllDigits(HdrA) /\ AllDigits(HdrB)

RECURSIVE Pow10(_)
Pow10(k) == IF k = 0 THEN 1 ELSE 10 * Pow10(k - 1)

\* The number a string of digits denotes, most significant digit first.
RECURSIVE DecimalValue(_)
DecimalValue(str) ==
    IF str = <<>> THEN 0
    ELSE (IF Head(str) = "1" THEN 1 ELSE 0) * Pow10(Len(str) - 1)
         + DecimalValue(Tail(str))

ResourceSize == Len(request.page.data)

Is206(a, b) ==
    /\ response.status = 206
    /\ response.has_range
    /\ response.range = <<a, b, ResourceSize>>
    /\ response.content_length = b - a + 1

IsFull200 ==
    /\ response.status = 200
    /\ ~response.has_range
    /\ response.content_length = ResourceSize
    /\ response.body = request.page.data

-----------------------------------------------------------------------------
C8_RangeBody ==
    (/\ request.handled
     /\ response.status = 206
     /\ 0 <= response.range[1]
     /\ response.range[1] <= response.range[2]
     /\ response.range[2] <= ResourceSize - 1)
    => /\ response.body = SubSeq(request.page.data,
                                 response.range[1] + 1, response.range[2] + 1)
       /\ Len(response.body) = response.content_length

HdrMulti == HdrHasPrefix /\ HdrCommas # {}

HdrNoPrefix ==
    request.range_header.present /\ HdrValue # <<>> /\ Head(HdrValue) # BYTES_EQ

HdrNonInteger ==
    /\ HdrHasPrefix
    /\ HdrCommas = {}
    /\ Cardinality(HdrDashes) = 1
    /\ ~(AllDigits(HdrA) /\ AllDigits(HdrB))

HdrNoBounds == HdrHasPrefix /\ HdrRest = <<"-">>

C10_IgnoredHeaders ==
    (request.handled /\ (HdrMulti \/ HdrNoPrefix \/ HdrNonInteger \/ HdrNoBounds))
    => IsFull200

\* Several ranges, the first of them with start > end, have been answered
\* for a resource that has bytes.
C10_Witness ==
    /\ request.handled /\ HdrMulti /\ ResourceSize > 0
    /\ Len(HdrRest) >= 4
    /\ SubSeq(HdrRest, 1, 4) = <<"1", "-", "0", ",">>

-----------------------------------------------------------------------------
(* C1: once some report gives line L of source S a hit count > 0,           *)
(* line_dict_for_src(S)[L] is True in every later state, whatever later     *)
(* reports say about L (a count of 0, null, or nothing).                    *)
C1_MonotonicMerge ==
    \A sl \in ever_covered :
        LET d == line_dict_for_src(sl[1])
        IN  /\ ~d.none
            /\ sl[2] \in DOMAIN d.lines
            /\ d.lines[sl[2]] = TRUE

\* A report has just given a count of 0 to a line covered before it.
C1_Witness == last_call.op = "load_from_dict" /\ last_call.zeroed

-----------------------------------------------------------------------------
(* C5: no port is passed to two JSCover launches: every launch uses a port  *)
(* in [10000, 40000] that no earlier launch used, and used_ports holds the  *)
(* port of every launch so far (it only grows) without a duplicate.         *)
C5_PortsNeverReused ==
    /\ \A i, j \in DOMAIN popen_calls : i # j => popen_calls[i] # popen_calls[j]
    /\ \A i \in DOMAIN popen_calls :
          PORT_MIN <= popen_calls[i] /\ popen_calls[i] <= PORT_MAX
    /\ \A i, j \in DOMAIN used_ports : i # j => used_ports[i] # used_ports[j]
    /\ used_ports = popen_calls

\* A start() has retried after a port conflict, and another instrumenter,
\* started before, is no longer running.
C5_Witness ==
    /\ cur_start.active /\ cur_start.num_attempts >= 1
    /\ \E i \in Instrs : instr[i].jscover \in {"terminated", "exited"}
    /\ Len(popen_calls) >= 3

-----------------------------------------------------------------------------
(* C2: all_coverage_data() returns the coverage data only when its last     *)
(* poll found the reported suite names equal to the registered ones, so     *)
(* never while a registered suite has not reported; it raises TimeoutError  *)
(* only when a poll failed and more than COVERAGE_TIMEOUT had elapsed, and  *)
(* it does not go on waiting once the clock it reads is past the timeout.   *)
C2_CompleteOrTimeout ==
    /\ call.result = "data" =>
          /\ server.coverage_data
          /\ call.seen_equal
          /\ server.desc_dict \subseteq posted.ever
    /\ call.result = "timeout" =>
          /\ ~call.seen_equal
          /\ call.elapsed > COVERAGE_TIMEOUT
    /\ call.pc = "sleep" => call.elapsed <= COVERAGE_TIMEOUT

\* The call timed out on partial data: one of two registered suites had
\* reported.
C2_Witness ==
    /\ call.result = "timeout"
    /\ server.state = "started"
    /\ suite_name_set # {}
    /\ suite_name_set \subseteq server.desc_dict
    /\ suite_name_set # server.desc_dict

(* C3: a call of all_coverage_data() made on a started server once every    *)
(* registered suite has received a coverage POST does not raise             *)
(* TimeoutError, whatever other POSTs were received.                        *)
C3_ReturnsOnceAllReported ==
    call.complete_at_call => call.result # "timeout"

(* C4: with coverage enabled, a GET of a source file of a registered suite  *)
(* that exists on disk, while the suite's instrumenter fails or is missing, *)
(* is answered by the dependency handler with 200 and the raw file's bytes. *)
C4_FallbackToRawFile ==
    LET result == match_include(request.path)
        full_path == PathJoin(ROOT_DIR, result.rel_path)
    IN  (/\ request.handled
         /\ request.method = "GET"
         /\ ~request.range_header.present
         /\ server.coverage_data
         /\ result.matched
         /\ result.suite_name \in server.desc_dict
         /\ result.rel_path \in Desc(result.suite_name).src_paths
         /\ full_path \in DOMAIN disk_lines
         /\ (result.suite_name \notin server.src_instr_dict \/ ~request.instr_ok))
        => /\ response.status = 200
           /\ response.body = FileBytes(disk_lines[full_path])
           /\ request.handler = "DependencyPageHandler"

\* The report a thread loads.
ReportOf(t) ==
    <<Item(threads[t].key, [hasLineData |-> TRUE,
                            lineData |-> threads[t].line_list])>>

\* _src_dict after the threads' reports are loaded one after the other.
Sequential(first, second) ==
    load_from_dict(load_from_dict([src |-> store0, rel |-> <<>>], ROOT_DIR,
                                  ReportOf(first)),
                   ROOT_DIR, ReportOf(second)).src

(* C6: when two threads have run load_from_dict concurrently, the store is  *)
(* the one that loading the two reports one after the other gives.          *)
C6_NoLostUpdate ==
    (\A t \in Threads : threads[t].pc = "done" /\ threads[t].key # <<>>)
    => src_dict \in {Sequential("t1", "t2"), Sequential("t2", "t1")}

-----------------------------------------------------------------------------
(* C11: after a single load_from_dict that brings the lineData list D to a       *)
(* source without earlier data, line_dict_for_src of that source has        *)
(* exactly the indices i with D[i] not null as keys, each mapped to         *)
(* D[i] > 0, and coverage_for_src is the number of indices with D[i] > 0    *)
(* over the number of indices with D[i] not null.                           *)
C11_FirstLoad ==
    \A e \in last_call.first :
        LET D == e[2]
            d == line_dict_for_src(e[1])
            c == coverage_for_src(e[1])
            measured == {i \in 0..(Len(D) - 1) : D[i + 1] # NULL}
            hit == {i \in measured : D[i + 1] > 0}
        IN  /\ ~d.none
            /\ DOMAIN d.lines = measured
            /\ \A i \in measured : d.lines[i] = (D[i + 1] > 0)
            /\ measured # {} =>
                  c = [kind |-> "fraction", num |-> Cardinality(hit),
                       den |-> Cardinality(measured)]

\* A report has just brought a source its first lineData list, holding a
\* null and a count of 0.
C11_Witness ==
    \E e \in last_call.first :
        /\ \E i \in DOMAIN e[2] : e[2][i] = NULL
        /\ \E i \in DOMAIN e[2] : e[2][i] = 0

-----------------------------------------------------------------------------
(* C12: a source of the constructor's expected_src_list that no report has  *)
(* brought a lineData list stays in src_list(), and line_dict_for_src maps  *)
(* each of 0..n-1 to False, n being the number of lines of the file on disk *)
(* (0, so the empty mapping, if the file cannot be read); reports that      *)
(* carry no lineData for the source do not change this. Only the            *)
(* constructor stores a source without a lineData list, so the sources of   *)
(* src_list() that no report brought data are the expected ones.            *)
C12_ExpectedUncovered ==
    /\ [](\A p \in src_list \ last_call.data :
            LET n == IF p \in DOMAIN disk_lines THEN disk_lines[p] ELSE 0
                d == line_dict_for_src(p)
            IN  /\ ~d.none
                /\ DOMAIN d.lines = 0..(n - 1)
                /\ \A i \in DOMAIN d.lines : d.lines[i] = FALSE)
    /\ [][src_list \subseteq src_list']_vars

\* A report has named an expected source that is on disk without giving it
\* a lineData list, and an expected source that cannot be read is without
\* data too.
C12_Witness ==
    /\ last_call.op = "load_from_dict"
    /\ \E p \in src_list \ last_call.data :
          p \in DOMAIN disk_lines /\ disk_lines[p] > 0 /\ p \in DOMAIN rel_path_dict
    /\ \E p \in src_list \ last_call.data : p \notin DOMAIN disk_lines

-----------------------------------------------------------------------------
(* Claims on util.retry *)

\* The exception is an instance of a class listed in fail_fast_errors: the
\* one list with a class is [JavaScriptError].
ListedFailFast(class) ==
    /\ rt.fail_fast_errors = FailFast(<<"JavaScriptError">>)
    /\ class \in {"JavaScriptError", "SubJavaScriptError"}

\* Entry i is a try_func invocation that raised an exception that is not
\* fail-fast.
FailedTry(i) ==
    /\ rt_log[i].ev = "try"
    /\ rt_log[i].class # "none"
    /\ ~ListedFailFast(rt_log[i].class)

C14_FailFast ==
    \A i \in DOMAIN rt_log :
        (rt_log[i].ev = "try" /\ ListedFailFast(rt_log[i].class))
          => /\ i = Len(rt_log)
             /\ rt.pc = "done"
             /\ rt.result = Raised(rt_log[i].class, Tries(i))

\* An instance of a subclass of a listed class was raised after an earlier
\* failure, with attempts left and a recover_func at hand.
C14_Witness ==
    /\ Len(rt_log) >= 3
    /\ rt_log[Len(rt_log)] = Event("try", "SubJavaScriptError")
    /\ ListedFailFast("SubJavaScriptError")
    /\ rt.num_attempts + 1 < rt.max_attempts
    /\ should_recover(rt.has_recover, rt.num_attempts + 1,
                      rt.num_attempts_before_recover)

\* The k-th try_func invocation failed with an exception that is not
\* fail-fast.
FailedAttempt(k) ==
    \E i \in DOMAIN rt_log : FailedTry(i) /\ Tries(i) = k

\* recover_func was called between the k-th invocation and the next.
RecoverAfter(k) ==
    \E i \in DOMAIN rt_log : rt_log[i].ev = "recover" /\ Tries(i) = k

(* C15: once the call has gone on past the k-th failed attempt (attempt     *)
(* k+1 was made, or the call ended), recover_func was called after that     *)
(* attempt if and only if it was provided and                               *)
(* num_attempts_before_recover <= k < max_attempts. Every recover_func call *)
(* comes right after the sleep that follows a failed attempt, and only a    *)
(* try_func invocation follows it: none before the first attempt, after an  *)
(* attempt that returned, after a fail-fast exception or after the final    *)
(* failed attempt.                                                          *)
C15_RecoverWindow ==
    /\ \A k \in 1..Len(rt_log) :
          (/\ FailedAttempt(k)
           /\ rt.pc = "done" \/ Tries(Len(rt_log)) > k)
            => (RecoverAfter(k) <=>
                  /\ rt.has_recover
                  /\ rt.num_attempts_before_recover <= k
                  /\ k < rt.max_attempts)
    /\ \A i \in DOMAIN rt_log :
          rt_log[i].ev = "recover"
            => /\ i >= 3
               /\ rt_log[i - 1].ev = "sleep"
               /\ FailedTry(i - 2)
               /\ i < Len(rt_log) => rt_log[i + 1].ev = "try"

\* The first failure was followed by a sleep alone, the second by a sleep
\* and recover_func, and the third attempt was made.
C15_Witness ==
    /\ Len(rt_log) >= 6
    /\ rt_log[2].ev = "sleep" /\ rt_log[3].ev = "try"
    /\ rt_log[4].ev = "sleep" /\ rt_log[5].ev = "recover"
    /\ rt_log[6].ev = "try"

-----------------------------------------------------------------------------
(* Claims on SrcInstrumenter.start() *)

\* The launches of the start() call, in order.
Launches == SelectSeq(cur_start.log, LAMBDA e : e.ev = "launch")

(* C16: in a start() call, a launch whose subprocess has exited at the      *)
(* immediate poll is followed by a sleep and a launch on another port,      *)
(* unless it is launch number MAX_START_ATTEMPTS; when a launch stays       *)
(* alive, start() returns and the instrumenter holds the port of that       *)
(* launch and its process; when MAX_START_ATTEMPTS launches have exited,    *)
(* no further launch is made, start() raises SrcInstrumenterError and the   *)
(* instrumenter holds no process.                                           *)
C16_StartRetries ==
    LET log == cur_start.log
        n == Len(Launches)
    IN  /\ \A i \in DOMAIN log :
              (log[i].ev = "launch" /\ log[i].outcome = "exited"
                 /\ (i < Len(log) \/ ~cur_start.active))
                => IF Len(SelectSeq(SubSeq(log, 1, i), LAMBDA e : e.ev = "launch"))
                        < MAX_START_ATTEMPTS
                   THEN /\ i + 1 \in DOMAIN log /\ log[i + 1] = Slept
                        /\ (i + 2 \in DOMAIN log
                               => /\ log[i + 2].ev = "launch"
                                  /\ log[i + 2].port # log[i].port)
                        /\ (i + 2 \notin DOMAIN log => cur_start.active)
                   ELSE /\ i = Len(log)
                        /\ ~cur_start.active
        /\ \A i \in DOMAIN log :
              (log[i].ev = "launch" /\ log[i].outcome = "alive")
                => /\ i = Len(log)
                   /\ ~cur_start.active
                   /\ cur_start.result = "ok"
                   /\ instr[cur_start.inst].port_num = log[i].port
                   /\ instr[cur_start.inst].jscover # "None"
        /\ (/\ ~cur_start.active
            /\ n > 0
            /\ \A k \in 1..n : Launches[k].outcome = "exited")
             => /\ n = MAX_START_ATTEMPTS
                /\ cur_start.result = "SrcInstrumenterError"
                /\ instr[cur_start.inst].jscover = "None"

\* A start() call has succeeded on its third launch, the first two having
\* exited at once.
C16_Witness ==
    /\ ~cur_start.active
    /\ cur_start.result = "ok"
    /\ Len(Launches) = 3
    /\ Launches[1].outcome = "exited" /\ Launches[2].outcome = "exited"
    /\ instr[cur_start.inst].jscover = "running"

(* C17: a launch that raises OSError ends the start() call: no sleep and no *)
(* launch follows it and start() raises SrcInstrumenterError; when the      *)
(* executable is not found, that is the first launch, so exactly one launch *)
(* is made.                                                                 *)
C17_OSErrorFailFast ==
    \A i \in DOMAIN cur_start.log :
        (cur_start.log[i].ev = "launch" /\ cur_start.log[i].outcome = "oserror")
          => /\ i = Len(cur_start.log)
             /\ ~cur_start.active
             /\ cur_start.result = "SrcInstrumenterError"
             /\ instr[cur_start.inst].jscover = "None"
             /\ (i = 1 => Len(Launches) = 1)

\* The only launch of a start() call raised OSError.
C17_Witness ==
    /\ Len(cur_start.log) = 1
    /\ cur_start.log[1].outcome = "oserror"
    /\ cur_start.result = "SrcInstrumenterError"

-----------------------------------------------------------------------------
(* Claims on SrcInstrumenter.instrumented_src() *)

(* C18: when the subprocess answers the GET of an instrumented_src call     *)
(* with a status that is not 2xx, the call raises the "could not retrieve"  *)
(* SrcInstrumenterError without a retry: that GET is the only one of the    *)
(* call.                                                                    *)
C18_NotFoundNotRetried ==
    isrc.first = "non200"
      => /\ isrc.pc = "done"
         /\ isrc.gets = 1
         /\ isrc.sleeps = 0
         /\ isrc.result = [kind |-> "raised", class |-> "SrcInstrumenterError",
                           msg |-> COULD_NOT_RETRIEVE, by |-> 1]

(* C19: a GET that fails with a connection error is retried while attempts  *)
(* are left; the body of a GET that succeeds is what instrumented_src       *)
(* returns; when the last of MAX_CONNECT_ATTEMPTS failed GETs failed with a *)
(* connection error, SrcInstrumenterError "could not connect" is raised;    *)
(* the connection error itself never leaves instrumented_src.               *)
C19_ConnectionRetried ==
    /\ (isrc.last = "conn_error" /\ isrc.pc = "done")
         => /\ isrc.num_attempts = MAX_CONNECT_ATTEMPTS
            /\ isrc.result = [kind |-> "raised", class |-> "SrcInstrumenterError",
                              msg |-> COULD_NOT_CONNECT, by |-> isrc.gets]
    /\ (isrc.last = "conn_error" /\ isrc.num_attempts < MAX_CONNECT_ATTEMPTS)
         => isrc.pc = "get"
    /\ isrc.last = "ok"
         => /\ isrc.pc = "done"
            /\ isrc.result = [kind |-> "returned", class |-> "none",
                              msg |-> "none", by |-> isrc.gets]
    /\ isrc.result.class # "ConnectionError"

\* The first GET failed with a connection error and a later GET returned
\* the source.
C19_Witness ==
    /\ isrc.first = "conn_error"
    /\ isrc.last = "ok"
    /\ isrc.gets >= 2
    /\ isrc.result.kind = "returned"

(* C20: while instrumented_src retries a failing GET, start() is called as  *)
(* the recovery between attempts once the first couple of failures have     *)
(* happened: not after the first failure alone, and before a later attempt  *)
(* when the failures go on.                                                 *)
C20_RestartAsRecovery ==
    /\ isrc.num_attempts <= 1 => isrc.restarts = 0
    /\ (isrc.pc = "done" /\ isrc.result.kind = "raised"
          /\ isrc.num_attempts = MAX_CONNECT_ATTEMPTS)
         => isrc.restarts >= 1

-----------------------------------------------------------------------------
(* C21: SrcInstrumenter.stop() raises nothing to its caller, whatever the   *)
(* state of the instrumenter: it returns after a warning when no subprocess *)
(* is held, and it returns when terminating the subprocess fails because    *)
(* the subprocess is already gone.                                          *)
C21_StopNeverRaises == stop_call.result \in {"none", "warned", "returned"}

\* The places in the registration order of the page handlers whose
\* page_contents gives content for the request handled.
Yielding ==
    {i \in DOMAIN page_handlers(server) :
        ~page_contents(page_handlers(server)[i], server, disk_lines,
                       CoverageStore, request, request.instr_ok).content.none}

(* C22: the page handlers are tried in registration order; the response is  *)
(* made from the content of the first handler whose method and path match   *)
(* and whose load_page returns content, no handler registered after it is   *)
(* invoked, and when no handler gives content the response is 404.          *)
C22_FirstHandlerAnswers ==
    (request.handled /\ request.path # <<>>) =>
        LET handlers == page_handlers(server)
        IN  IF Yielding = {}
            THEN /\ request.invoked = handlers
                 /\ request.handler = "none"
                 /\ response.status = 404
            ELSE LET k == CHOOSE i \in Yielding : \A j \in Yielding : i <= j
                     content == page_contents(handlers[k], server, disk_lines,
                                              CoverageStore, request,
                                              request.instr_ok).content
                 IN  /\ request.invoked = SubSeq(handlers, 1, k)
                     /\ request.handler = handlers[k]
                     /\ request.page = content
                     /\ response = respond(content, request.range_header)

(* C23: constructing a SuitePageServer from a list in which two or more     *)
(* descriptions share a suite name raises DuplicateSuiteNameError; from a   *)
(* list of pairwise distinct names it gives a server whose desc_dict has    *)
(* exactly one entry per description.                                       *)
C23_DuplicateSuiteName ==
    ctor.result # "none" =>
        LET suite_desc_list == ctor.suite_desc_list
            shared == \E i, j \in DOMAIN suite_desc_list :
                         /\ i # j
                         /\ suite_desc_list[i].suite_name = suite_desc_list[j].suite_name
        IN  IF shared
            THEN ctor.result = "DuplicateSuiteNameError"
            ELSE /\ ctor.result = "constructed"
                 /\ Cardinality(DOMAIN ctor.desc_dict) = Len(suite_desc_list)
                 /\ \A i \in DOMAIN suite_desc_list :
                       ctor.desc_dict[suite_desc_list[i].suite_name] = suite_desc_list[i]
                 /\ server.desc_dict = DOMAIN ctor.desc_dict

C23_Witness ==
    /\ ctor.result = "DuplicateSuiteNameError"
    /\ Len(ctor.suite_desc_list) = 2
(* C24: load_from_dict raises ValueError for every report that is not a     *)
(* dict and leaves the store as it was: the tracked sources, every line     *)
(* mapping and the relative-path map are those of before the call.          *)
C24_NotDictRejected ==
    /\ [](~last_call.is_dict => last_call.raised = "ValueError")
    /\ [][~last_call'.is_dict =>
             /\ src_dict' = src_dict
             /\ rel_path_dict' = rel_path_dict
             /\ ever_covered' = ever_covered]_vars

C24_Witness ==
    /\ ~last_call.is_dict
    /\ last_call.op = "load_from_dict"
    /\ rel_path_dict # <<>>
    /\ \E p \in src_list : ~src_dict[p].none /\ \E n \in DOMAIN src_dict[p].lines : src_dict[p].lines[n]
\* A body that is malformed for the payload of a coverage POST.
Malformed(content) ==
    ~content.json \/ ~content.is_dict \/ content.bad # "none"

(* C25: a POST to /jscoverage-store/{suite} whose body is not JSON, is JSON *)
(* that is not an object, or is an object with an entry that has not the    *)
(* shape {"lineData": [null|int, ...]} is ignored where it is received: no  *)
(* exception leaves the request handler, the client gets no 5xx, and no     *)
(* line mapping of the coverage store changes.                              *)
C25_MalformedIgnored ==
    [][(/\ ~request.handled
        /\ request'.handled
        /\ request.method = "POST"
        /\ match_store(request.path).matched
        /\ Malformed(request.content))
       => /\ request'.raised = "none"
          /\ response'.status < 500
          /\ src_dict' = src_dict]_vars
(* C26: with coverage enabled, instrumented_src is called for a GET of      *)
(* /suite/{s}/include/{p} only if p is one of the source paths of suite s;  *)
(* a request for a library, spec or fixture path makes no such call and is  *)
(* answered by the dependency handler with the file as it is on disk.       *)
C26_OnlySourcesInstrumented ==
    LET result == match_include(request.path)
        full_path == PathJoin(ROOT_DIR, result.rel_path)
    IN  (/\ request.handled
         /\ request.method = "GET"
         /\ result.matched
         /\ server.coverage_data)
        => /\ \A c \in request.instr_calls :
                 /\ c = <<result.suite_name, result.rel_path>>
                 /\ result.suite_name \in server.desc_dict
                 /\ result.rel_path \in Desc(result.suite_name).src_paths
           /\ (/\ result.suite_name \in server.desc_dict
               /\ result.rel_path \in
                     (Desc(result.suite_name).lib_paths
                        \cup Desc(result.suite_name).spec_paths
                        \cup Desc(result.suite_name).fixture_paths)
                     \ Desc(result.suite_name).src_paths
               /\ full_path \in DOMAIN disk_lines)
              => /\ request.instr_calls = {}
                 /\ request.handler = "DependencyPageHandler"
                 /\ request.page = FileContent(FileBytes(disk_lines[full_path]))
                 /\ response.status \in {200, 206}

C26_Witness ==
    /\ request.handled
    /\ request.method = "GET"
    /\ match_include(request.path).rel_path = <<"spec.js">>
    /\ "s1" \in server.src_instr_dict
    /\ request.handler = "DependencyPageHandler"
    /\ response.status = 200
(* C27: a GET of /suite/{s}/include/{p} is answered with content only if s  *)
(* is a registered suite and p is one of its lib, src, spec or fixture      *)
(* paths; for an unregistered s, for a p that is not listed (even if the    *)
(* file root_dir/p exists) and for a listed p whose file is missing, the    *)
(* response is 404.                                                         *)
C27_OnlyListedDependencies ==
    LET result == match_include(request.path)
        full_path == PathJoin(ROOT_DIR, result.rel_path)
        listed == /\ result.suite_name \in server.desc_dict
                  /\ result.rel_path \in all_paths(Desc(result.suite_name))
    IN  (/\ request.handled
         /\ request.method = "GET"
         /\ result.matched)
        => /\ response.status \in {200, 206} => listed
           /\ (~listed \/ full_path \notin DOMAIN disk_lines)
                 => response.status = 404
(* C28: a server built without a jscover_path has, after start() and in     *)
(* every later state, no instrumenter and no CoverageData;                  *)
(* all_coverage_data() returns None at once, without polling and without    *)
(* TimeoutError; a POST to /jscoverage-store/{suite} is answered 404 and a  *)
(* source file is served as it is on disk.                                  *)
C28_NoCoverageWithoutJSCover ==
    LET result == match_include(request.path)
        full_path == PathJoin(ROOT_DIR, result.rel_path)
    IN  ~server.jscover_path =>
          /\ ~server.coverage_data
          /\ server.src_instr_dict = {}
          /\ server.state # "starting"
          /\ call.pc = "idle"
          /\ call.elapsed = 0
          /\ call.result \in {"none", "None"}
          /\ (/\ request.handled
              /\ request.method = "POST"
              /\ match_store(request.path).matched)
             => /\ response.status = 404
                /\ request.raised = "none"
                /\ suite_name_set = {}
          /\ (/\ request.handled
              /\ request.method = "GET"
              /\ result.matched
              /\ result.suite_name \in server.desc_dict
              /\ result.rel_path \in Desc(result.suite_name).src_paths
              /\ full_path \in DOMAIN disk_lines)
             => /\ request.instr_calls = {}
                /\ request.handler = "DependencyPageHandler"
                /\ response.status = 200
                /\ response.body = FileBytes(disk_lines[full_path])

C28_Witness ==
    /\ ~server.jscover_path
    /\ server.state = "started"
    /\ call.result = "None"
    /\ request.handled
    /\ request.method = "POST"
    /\ request.path = Path(<<"jscoverage-store", SEP, "s1">>)
    /\ request.content.is_dict
    /\ "s1" \in server.desc_dict
    /\ response.status = 404
(* C29: in every state of the store, coverage_for_src of a tracked path is  *)
(* the number of its lines mapped to True over the number of its measured   *)
(* lines, a ratio between 0 and 1; for a path that is not tracked it is     *)
(* None.                                                                    *)
C29_CoverageForSrc ==
    \A p \in FullPaths \cup src_list :
        IF p \in src_list
        THEN LET lines == line_dict_for_src(p).lines
             IN  /\ coverage_for_src(p).kind = "fraction"
                 /\ coverage_for_src(p).num =
                       Cardinality({n \in DOMAIN lines : lines[n]})
                 /\ coverage_for_src(p).den = Cardinality(DOMAIN lines)
                 /\ 0 <= coverage_for_src(p).num
                 /\ coverage_for_src(p).num <= coverage_for_src(p).den
        ELSE coverage_for_src(p).kind = "none"

\* The lines of the tracked sources, as <<path, line number>>.
MeasuredLines ==
    UNION {{<<p, n>> : n \in DOMAIN line_dict_for_src(p).lines} : p \in src_list}

(* C30: total_coverage() is None exactly when no line of any tracked source *)
(* is measured; otherwise it is the number of covered lines over the number *)
(* of measured lines, both counted over every source of src_list(), a ratio *)
(* between 0 and 1.                                                         *)
C30_TotalCoverage ==
    LET covered == {l \in MeasuredLines : line_dict_for_src(l[1]).lines[l[2]]}
    IN  /\ total_coverage.kind = "none" <=> MeasuredLines = {}
        /\ total_coverage.kind # "none" =>
              /\ total_coverage.kind = "fraction"
              /\ total_coverage.num = Cardinality(covered)
              /\ total_coverage.den = Cardinality(MeasuredLines)
              /\ 0 <= total_coverage.num
              /\ total_coverage.num <= total_coverage.den

C30_Witness ==
    /\ last_call.op = "load_from_dict"
    /\ total_coverage.kind = "fraction"
    /\ 0 < total_coverage.num
    /\ total_coverage.num < total_coverage.den
    /\ \E p \in src_list : src_dict[p].none
    /\ \E p \in src_list : ~src_dict[p].none

\* C31: once start() has completed with coverage enabled, src_instr_dict
\* holds an instrumenter for exactly the registered suite names, start() was
\* called once on each of them, and every source path of every suite is a
\* key of the coverage store.
C31_StartedWithCoverage ==
    (server.state = "started" /\ server.jscover_path) =>
        /\ server.src_instr_dict = server.desc_dict
        /\ \A suite_name \in server.desc_dict :
              /\ server.starts[suite_name] = 1
              /\ \A rel_path \in Desc(suite_name).src_paths :
                    PathJoin(Desc(suite_name).root_dir, rel_path) \in DOMAIN src_dict

C31_Witness ==
    /\ server.state = "started"
    /\ server.jscover_path
    /\ server.desc_dict = SuiteNames
    /\ suite_name_set # {}

\* C32: a call of stop() made after start() calls instr.stop() on every
\* instrumenter of src_instr_dict and ends with the accept loop shut down
\* and the socket closed.
C32_StopReleasesPort ==
    [][(server.state \in {"started", "start_failed"} /\ server'.state # server.state)
          => (server'.state = "stopped" /\ server'.stops = server.src_instr_dict)]_vars

\* C33: every range answered 206 for a resource of size Z satisfies
\* 0 <= start <= end <= Z - 1, and the advertised Content-Length is at
\* least 1.
C33_RangeValidated ==
    (request.handled /\ response.status = 206) =>
        /\ 0 <= response.range[1]
        /\ response.range[1] <= response.range[2]
        /\ response.range[2] <= ResourceSize - 1
        /\ response.content_length >= 1

\* C34: two threads running start() at the same time never claim the same
\* port, and used_ports never holds a port twice.
C34_NoDuplicatePort ==
    /\ \A i, j \in DOMAIN used_ports : i # j => used_ports[i] # used_ports[j]
    /\ (\A t \in Threads : threads[t].pc = "done")
          => \A t, u \in Threads : t # u => threads[t].port_num # threads[u].port_num

\* C35: an instrumenter never has two live subprocesses. A launch is made
\* only for an instrumenter that holds no subprocess; the launched
\* subprocess is kept if and only if it was alive when polled, so a launch
\* that a retry discards had exited; and a start() call on an instrumenter
\* that holds a subprocess launches nothing and leaves its port and process
\* as they are.
C35_AtMostOneSubprocess ==
    [][/\ (Len(popen_calls') > Len(popen_calls)) =>
             LET log == cur_start'.log
                 last == CHOOSE k \in DOMAIN log :
                            /\ log[k].ev = "launch"
                            /\ \A j \in DOMAIN log : j > k => log[j].ev # "launch"
             IN  /\ Len(popen_calls') = Len(popen_calls) + 1
                 /\ instr[cur_start.inst].jscover = "None"
                 /\ \A i \in Instrs : i # cur_start.inst => instr'[i] = instr[i]
                 /\ IF log[last].outcome = "alive"
                    THEN instr'[cur_start.inst] =
                            [port_num |-> log[last].port, jscover |-> "running"]
                    ELSE instr'[cur_start.inst] = instr[cur_start.inst]
       /\ (~cur_start.active /\ cur_start' # cur_start
             /\ instr[cur_start'.inst].jscover # "None")
            => /\ cur_start'.result = "warned"
               /\ ~cur_start'.active
               /\ popen_calls' = popen_calls
               /\ instr' = instr]_vars

\* start() was called on an instrumenter that holds a running subprocess,
\* started after a launch that a retry discarded.
C35_Witness ==
    /\ cur_start.result = "warned"
    /\ instr[cur_start.inst].jscover = "running"
    /\ Len(popen_calls) >= 2
    /\ \E i \in Instrs : instr[i].jscover = "None"

\* C36: the set of reported suites only grows. A step changes it only by
\* adding one suite that was not in it, so recording a suite again leaves
\* it as it is, and no POST (whatever its body) and no all_coverage_data()
\* step removes a suite.
C36_ReportedSuitesGrow ==
    [][/\ suite_name_set \subseteq suite_name_set'
       /\ Cardinality(suite_name_set' \ suite_name_set) <= 1
       /\ (call' # call \/ server' # server) => suite_name_set' = suite_name_set]_vars

\* all_coverage_data() timed out after three suites were recorded, and the
\* last POST was a malformed one that raised in the handler.
C36_Witness ==
    /\ suite_name_set = SuiteNames \cup {UNKNOWN_SUITE}
    /\ posted.ever = suite_name_set
    /\ response = NoResponse
    /\ call.result = "timeout"

\* C37: every reported suite is a registered suite: a POST to
\* /jscoverage-store/<name> for a name without a suite description does not
\* add the name to the set of reported suites.
C37_ReportedAreRegistered ==
    (server.coverage_data /\ server.state # "init")
        => suite_name_set \subseteq server.desc_dict

C39_CallTerminates ==
    /\ (call.pc # "idle") ~> (call.pc = "idle" /\ call.result \in {"data", "timeout"})
    /\ [][(call.pc # "idle" /\ call'.pc = "idle")
            => \/ call'.result = "data"
               \/ call'.result = "timeout" /\ call.elapsed > COVERAGE_TIMEOUT]_vars

\* A call has timed out on a started server that received no POST at all.
C39_Witness ==
    /\ call.result = "timeout"
    /\ server.coverage_data
    /\ posted.ever = {}
    /\ server.desc_dict # {}

\* C40: GET /suite/<name>, with or without a trailing slash or a query
\* string, is answered 200 with the rendered page when the suite is
\* registered and 404 when it is not; when the renderer fails for a
\* registered suite, no exception leaves the request handler and the
\* answer is 404.
C40_SuitePage ==
    LET result == match_suite(request.path)
    IN  (request.handled /\ request.method = "GET" /\ result.matched) =>
            IF result.suite_name \notin server.desc_dict
            THEN response.status = 404 /\ request.raised = "none"
            ELSE IF request.render_ok
            THEN /\ request.raised = "none"
                 /\ ~request.range_header.present
                       => response.status = 200 /\ response.body = SUITE_PAGE
            ELSE request.raised = "none" /\ response.status = 404

=============================================================================
